---- MODULE Spec2Model ----
(***************************************************************************)
(* NousMD core: SecurityUtils.sanitizeUrl, MarkdownParser.parse and        *)
(* SyntaxHighlighter.highlight of src/script.js (the second, current copy  *)
(* of the script, lines 665-1799).                                         *)
(*                                                                         *)
(* A JavaScript string is a sequence of characters.  A character is a pair *)
(* <<c, o>>: c is the character (a one-character TLA+ string, or a name    *)
(* such as "NUL" for a character that cannot be written), o is where the   *)
(* character came from: "u" the caller's text, "e" an entity written by    *)
(* escapeHtml, "g" markup written by the parser or the highlighter, "p" a  *)
(* placeholder.  The code reads only c; o is history used by the           *)
(* properties.                                                             *)
(***************************************************************************)
EXTENDS Integers, Sequences, FiniteSets, TLC

\* url, urlResult, urlWarned: the argument of a call of sanitizeUrl, what it returned
\*   and what it logged
\* text: the markdown handed to parse and to highlight
\* preview, prevPreview: what the latest and the previous call of parse returned
\* overlay: what highlight returned
\* parseCalls: the number of calls of parse made
\* lists: a run of parseLists, line by line: the lines, the number of lines done, the
\*   local variables result, inUl and inOl, and what it returned
\* editor: AppState.editor: value, selectionStart, selectionEnd
\* panes: the innerHTML of AppState.preview and of AppState.highlightDiv
\* timers: the timers set with setTimeout and not yet fired or cleared, each with the
\*   function it runs and the time left
\* debounce: the timeoutId of the debounced input handler; the time since the last
\*   input event, the number of runs of Editor.updatePreview since then and the time
\*   of the latest run, counted from the last input event; the number of input events
\*   not yet followed by a run, and the number that the latest run followed
\* save: AppState.saveTimeout, the text of status-save, localStorage's nousmd-content
\* modal: the dialog (display of the overlay, value of the input, the promise that
\*   this.resolve resolves or 0 for null), the promises made by prompt, each with the
\*   flow that awaits it, how often and with which value it was resolved and whether
\*   the flow has resumed, the alerts shown, and the last event handled with the value
\*   it closed the dialog with
\* scroll: the rafId of the throttled scroll handler (set or null), the frame
\*   callbacks requested and not yet run, the number of runs of the handler in the
\*   latest frame, scrollTop and scrollLeft of the editor and of the highlight layer
VARIABLES url, urlResult, urlWarned, text, preview, prevPreview, overlay, parseCalls,
          lists, editor, panes, timers, debounce, save, scroll, modal

vars == <<url, urlResult, urlWarned, text, preview, prevPreview, overlay, parseCalls,
          lists, editor, panes, timers, debounce, save, scroll, modal>>
urlVars == <<url, urlResult, urlWarned>>
docVars == <<text, preview, prevPreview, overlay, parseCalls>>
editVars == <<editor, panes, timers, debounce, save>>
appVars == <<lists, editVars, scroll, modal>>

(***************************************************************************)
(* Characters and strings                                                  *)
(***************************************************************************)

\* the string with the characters of cs, all of origin o
Str(cs, o) == [i \in 1..Len(cs) |-> <<cs[i], o>>]
User(cs) == Str(cs, "u")
Gen(cs) == Str(cs, "g")

\* the characters of a string, origins dropped
Plain(s) == [i \in 1..Len(s) |-> s[i][1]]

\* a call that has not been made
NotCalled == [done |-> FALSE, val |-> <<>>]

\* a JavaScript value: a string, or null, or a number
JsString(s) == [type |-> "string", val |-> s]
JsNull == [type |-> "null", val |-> <<>>]
JsNumber == [type |-> "number", val |-> <<>>]

\* !v of JavaScript: null and the empty string are falsy (the number modelled is 0)
Falsy(v) == v.type # "string" \/ v.val = <<>>

RECURSIVE Flatten(_)
Flatten(ss) ==
    IF ss = <<>> THEN <<>>
    ELSE IF Len(ss) = 1 THEN ss[1]
    ELSE LET h == Len(ss) \div 2
         IN  Flatten(SubSeq(ss, 1, h)) \o Flatten(SubSeq(ss, h + 1, Len(ss)))

Max(S) == CHOOSE m \in S : \A k \in S : m >= k

\* s.startsWith(cs) from position i (1-based)
StartsWithAt(s, i, cs) ==
    /\ i >= 1
    /\ i + Len(cs) - 1 <= Len(s)
    /\ \A k \in 1..Len(cs) : s[i + k - 1][1] = cs[k]

StartsWith(s, cs) == StartsWithAt(s, 1, cs)

\* first position >= i whose character is in the set C, 0 when there is none
FirstIn(s, i, C) ==
    LET n == Len(s)
        k == CHOOSE p \in i..(n + 1) :
                 /\ p = n + 1 \/ s[p][1] \in C
                 /\ \A j \in i..(p - 1) : s[j][1] \notin C
    IN  IF i > n \/ k = n + 1 THEN 0 ELSE k

\* first position >= i whose character is not in the set C, Len(s)+1 when there is none
FirstNotIn(s, i, C) ==
    LET n == Len(s)
    IN  IF i > n THEN n + 1
        ELSE CHOOSE p \in i..(n + 1) :
                 /\ p = n + 1 \/ s[p][1] \notin C
                 /\ \A j \in i..(p - 1) : s[j][1] \in C

\* last position <= i whose character is not in the set C, 0 when there is none
LastNotIn(s, i, C) ==
    IF i < 1 THEN 0
    ELSE CHOOSE p \in 0..i :
             /\ p = 0 \/ s[p][1] \notin C
             /\ \A j \in (p + 1)..i : s[j][1] \in C

\* the 128 ASCII characters, by code + 1 ("BT" is the backtick, U+0060)
Ascii ==
    << "NUL", "SOH", "STX", "ETX", "EOT", "ENQ", "ACK", "BEL",
       "BS", "\t", "\n", "VT", "FF", "\r", "SO", "SI",
       "DLE", "DC1", "DC2", "DC3", "DC4", "NAK", "SYN", "ETB",
       "CAN", "EM", "SUB", "ESC", "FS", "GS", "RS", "US",
       " ", "!", "\"", "#", "$", "%", "&", "'", "(", ")", "*", "+", ",", "-", ".", "/",
       "0", "1", "2", "3", "4", "5", "6", "7", "8", "9", ":", ";", "<", "=", ">", "?",
       "@", "A", "B", "C", "D", "E", "F", "G", "H", "I", "J", "K", "L", "M", "N", "O",
       "P", "Q", "R", "S", "T", "U", "V", "W", "X", "Y", "Z", "[", "\\", "]", "^", "_",
       "BT", "a", "b", "c", "d", "e", "f", "g", "h", "i", "j", "k", "l", "m", "n", "o",
       "p", "q", "r", "s", "t", "u", "v", "w", "x", "y", "z", "{", "|", "}", "~", "DEL" >>

UpperLetters == {Ascii[k] : k \in 66..91}
LowerLetters == {Ascii[k] : k \in 98..123}
Digits == {Ascii[k] : k \in 49..58}
Letters == UpperLetters \cup LowerLetters

CodeOf(c) == CHOOSE k \in 1..Len(Ascii) : Ascii[k] = c

\* Characters outside ASCII: "C1" one of U+0080..U+009F, "NBSP" U+00A0, "LS" U+2028 or
\* U+2029, "UWS" another Unicode space (U+FEFF included), "KELVIN" U+212A, "IDOT" U+0130,
\* "CDOT" U+0307, "UNI" any other.
\* White space of String.prototype.trim and of \s
WhiteSpace == {"\t", "\n", "VT", "FF", "\r", " ", "NBSP", "UWS", "LS"}

\* line terminators: what . does not match and what ^ and $ match at under /m
LineTerminators == {"\n", "\r", "LS"}

\* [\u0000-\u001F\u007F-\u009F]
ControlChars == {Ascii[k] : k \in 1..32} \cup {"DEL", "C1"}

\* String.prototype.trim
Trim(s) ==
    LET a == FirstNotIn(s, 1, WhiteSpace)
        b == LastNotIn(s, Len(s), WhiteSpace)
    IN  IF a > b THEN <<>> ELSE SubSeq(s, a, b)

\* String.prototype.toLowerCase, one character
LowerChar(x) ==
    IF x[1] \in UpperLetters THEN << <<Ascii[CodeOf(x[1]) + 32], x[2]>> >>
    ELSE IF x[1] = "KELVIN" THEN << <<"k", x[2]>> >>
    ELSE IF x[1] = "IDOT" THEN << <<"i", x[2]>>, <<"CDOT", x[2]>> >>
    ELSE << x >>

ToLowerCase(s) == Flatten([i \in 1..Len(s) |-> LowerChar(s[i])])

(***************************************************************************)
(* String.prototype.replace with a global regular expression.              *)
(* M(s, i) is the last position of the match that starts at position i, 0  *)
(* when the expression does not match there; R(s, i, e, k) is what the     *)
(* k-th match, s[i..e], is replaced by.                                    *)
(***************************************************************************)
\* the matches found from left to right, each search resuming after the previous match
RECURSIVE NonOverlapping(_, _, _)
NonOverlapping(ends, i, acc) ==
    IF \A j \in i..Len(ends) : ends[j] < j THEN acc
    ELSE LET b == CHOOSE p \in i..Len(ends) :
                      ends[p] >= p /\ \A j \in i..(p - 1) : ends[j] < j
         IN  NonOverlapping(ends, ends[b] + 1, Append(acc, <<b, ends[b]>>))

RECURSIVE Splice(_, _, _, _, _)
Splice(s, ms, reps, k, from) ==
    IF k > Len(ms) THEN SubSeq(s, from, Len(s))
    ELSE SubSeq(s, from, ms[k][1] - 1) \o reps[k] \o Splice(s, ms, reps, k + 1, ms[k][2] + 1)

MatchesOf(s, M(_, _)) == NonOverlapping([i \in 1..Len(s) |-> M(s, i)], 1, <<>>)

ReplaceAll(s, M(_, _), R(_, _, _, _)) ==
    LET ms == MatchesOf(s, M)
        reps == [k \in 1..Len(ms) |-> R(s, ms[k][1], ms[k][2], k)]
    IN  IF s = <<>> \/ ms = <<>> THEN s ELSE Splice(s, ms, reps, 1, 1)

(***************************************************************************)
(* decodeURIComponent (ECMAScript Decode with an empty reserved set)       *)
(***************************************************************************)
HexDigits == Digits \cup {"a", "b", "c", "d", "e", "f", "A", "B", "C", "D", "E", "F"}

HexValue(c) ==
    IF c \in Digits THEN CodeOf(c) - 49
    ELSE IF c \in UpperLetters THEN CodeOf(c) - 56
    ELSE CodeOf(c) - 88

\* a well-formed escape %XX stands at position i
IsEscape(s, i) ==
    /\ i + 2 <= Len(s)
    /\ s[i][1] = "%"
    /\ s[i + 1][1] \in HexDigits
    /\ s[i + 2][1] \in HexDigits

Octet(s, i) == 16 * HexValue(s[i + 1][1]) + HexValue(s[i + 2][1])

\* number of octets of the UTF-8 sequence that the octet b starts, 0 when b starts none
Utf8Length(b) ==
    IF b < 128 THEN 1
    ELSE IF b < 192 THEN 0
    ELSE IF b < 224 THEN 2
    ELSE IF b < 240 THEN 3
    ELSE IF b < 248 THEN 4
    ELSE 0

\* the character of a code point of the basic plane, in the model's alphabet
CharOfCodePoint(cp) ==
    IF cp < 128 THEN Ascii[cp + 1]
    ELSE IF cp < 160 THEN "C1"
    ELSE IF cp = 160 THEN "NBSP"
    ELSE IF cp = 304 THEN "IDOT"
    ELSE IF cp = 775 THEN "CDOT"
    ELSE IF cp = 8490 THEN "KELVIN"
    ELSE IF cp \in {8232, 8233} THEN "LS"
    ELSE IF cp \in ({5760, 8239, 8287, 12288, 65279} \cup (8192..8202)) THEN "UWS"
    ELSE "UNI"

\* the n escapes from position i are a valid UTF-8 encoding of one code point
ValidUtf8(s, i, n) ==
    LET b1 == Octet(s, i)
        b2 == Octet(s, i + 3)
    IN  /\ \A k \in 1..(n - 1) :
              /\ IsEscape(s, i + 3 * k)
              /\ Octet(s, i + 3 * k) \in 128..191
        /\ n = 2 => b1 >= 194
        /\ n = 3 => /\ b1 = 224 => b2 >= 160
                    /\ b1 = 237 => b2 <= 159
        /\ n = 4 => /\ b1 = 240 => b2 >= 144
                    /\ b1 = 244 => b2 <= 143
                    /\ b1 <= 244

\* the characters that the n escapes from position i decode to
DecodedChars(s, i, n) ==
    LET b1 == Octet(s, i)
        o == s[i][2]
    IN  IF n = 1 THEN << <<CharOfCodePoint(b1), o>> >>
        ELSE IF n = 2
          THEN << <<CharOfCodePoint((b1 - 192) * 64 + (Octet(s, i + 3) - 128)), o>> >>
        ELSE IF n = 3
          THEN << <<CharOfCodePoint((b1 - 224) * 4096 + (Octet(s, i + 3) - 128) * 64
                                     + (Octet(s, i + 6) - 128)), o>> >>
        ELSE << <<"UNI", o>>, <<"UNI", o>> >>

\* a valid escape sequence starts at position i: its last position, else 0
EscapeMatch(s, i) ==
    IF s[i][1] = "%" /\ IsEscape(s, i)
         /\ Utf8Length(Octet(s, i)) # 0 /\ ValidUtf8(s, i, Utf8Length(Octet(s, i)))
      THEN i + 3 * Utf8Length(Octet(s, i)) - 1
      ELSE 0

\* decodeURIComponent(s), read from left to right; [ok |-> FALSE] stands for the
\* URIError it throws at a % that does not start a valid escape sequence
DecodeURIComponent(s) ==
    LET ms == MatchesOf(s, EscapeMatch)
        R(t, i, e, k) == DecodedChars(t, i, Utf8Length(Octet(t, i)))
    IN  IF \E p \in 1..Len(s) :
               s[p][1] = "%" /\ \A k \in 1..Len(ms) : p < ms[k][1] \/ p > ms[k][2]
          THEN [ok |-> FALSE, val |-> <<>>]
          ELSE [ok |-> TRUE, val |-> ReplaceAll(s, EscapeMatch, R)]

(***************************************************************************)
(* SecurityUtils                                                           *)
(***************************************************************************)
\* the list with "ftps:" forgotten
SAFE_PROTOCOLS_WithoutFtps ==
    { <<"h", "t", "t", "p", ":">>, <<"h", "t", "t", "p", "s", ":">>,
      <<"m", "a", "i", "l", "t", "o", ":">>, <<"f", "t", "p", ":">> }

SAFE_PROTOCOLS ==
    { <<"h", "t", "t", "p", ":">>, <<"h", "t", "t", "p", "s", ":">>,
      <<"m", "a", "i", "l", "t", "o", ":">>, <<"f", "t", "p", ":">>,
      <<"f", "t", "p", "s", ":">> }

\* the protocols of the explicit check of sanitizeUrl
DangerousProtocols ==
    { <<"j", "a", "v", "a", "s", "c", "r", "i", "p", "t", ":">>, <<"d", "a", "t", "a", ":">>,
      <<"v", "b", "s", "c", "r", "i", "p", "t", ":">>, <<"f", "i", "l", "e", ":">>,
      <<"a", "b", "o", "u", "t", ":">> }

\* normalized.replace(/^[\s\u0000-\u001F\u007F-\u009F]+|[\s\u0000-\u001F\u007F-\u009F]+$/g, '')
StripEnds(s) ==
    LET C == WhiteSpace \cup ControlChars
        a == FirstNotIn(s, 1, C)
        b == LastNotIn(s, Len(s), C)
    IN  IF a > b THEN <<>> ELSE SubSeq(s, a, b)

\* cleaned.match(/^([a-z][a-z0-9+.-]*:)/): the protocol matched, <<>> when none
ProtocolMatch(s) ==
    IF s = <<>> \/ s[1][1] \notin LowerLetters THEN <<>>
    ELSE LET e == FirstNotIn(s, 2, LowerLetters \cup Digits \cup {"+", ".", "-"})
         IN  IF e <= Len(s) /\ s[e][1] = ":" THEN Plain(SubSeq(s, 1, e)) ELSE <<>>

\* the check made on the text as written, not decoded
TryDecode_Skipped(trimmed) == [ok |-> TRUE, val |-> trimmed]

\* the catch taken as "use the text as it is"
TryDecode_Lenient(trimmed) ==
    IF DecodeURIComponent(trimmed).ok THEN DecodeURIComponent(trimmed)
    ELSE [ok |-> TRUE, val |-> trimmed]

\* try { decoded = decodeURIComponent(trimmed) } catch (e) { return '' }
TryDecode(trimmed) == DecodeURIComponent(trimmed)

HasDangerousProtocol(cleaned) == \E p \in DangerousProtocols : StartsWith(cleaned, p)

\* sanitizeUrl returning the decoded text where it returns the trimmed one
SanitizeUrlCall_ReturnsDecoded(v) ==
    IF Falsy(v) THEN [result |-> <<>>, warnings |-> <<>>]
    ELSE
      LET trimmed == Trim(v.val)
          decoded == TryDecode(trimmed)
          normalized == Trim(ToLowerCase(decoded.val))
          cleaned == StripEnds(normalized)
          protocol == ProtocolMatch(cleaned)
      IN  IF trimmed = <<>> THEN [result |-> <<>>, warnings |-> <<>>]
          ELSE IF ~decoded.ok THEN [result |-> <<>>, warnings |-> <<>>]
          ELSE IF HasDangerousProtocol(cleaned)
            THEN [result |-> <<>>,
                  warnings |-> << [kind |-> "dangerous", value |-> trimmed] >>]
          ELSE IF protocol # <<>> /\ protocol \notin SAFE_PROTOCOLS
            THEN [result |-> <<>>,
                  warnings |-> << [kind |-> "not whitelisted", value |-> trimmed] >>]
          ELSE [result |-> decoded.val, warnings |-> <<>>]

\* sanitizeUrl with what it logs: result is the string returned, warnings the
\* Logger.warn calls made, each with the value it carries
SanitizeUrlCall(v) ==
    IF Falsy(v) THEN [result |-> <<>>, warnings |-> <<>>]
    ELSE
      LET trimmed == Trim(v.val)
          decoded == TryDecode(trimmed)
          normalized == Trim(ToLowerCase(decoded.val))
          cleaned == StripEnds(normalized)
          protocol == ProtocolMatch(cleaned)
      IN  IF trimmed = <<>> THEN [result |-> <<>>, warnings |-> <<>>]
          ELSE IF ~decoded.ok THEN [result |-> <<>>, warnings |-> <<>>]
          ELSE IF HasDangerousProtocol(cleaned)
            THEN [result |-> <<>>,
                  warnings |-> << [kind |-> "dangerous", value |-> trimmed] >>]
          ELSE IF protocol # <<>> /\ protocol \notin SAFE_PROTOCOLS
            THEN [result |-> <<>>,
                  warnings |-> << [kind |-> "not whitelisted", value |-> trimmed] >>]
          ELSE [result |-> trimmed, warnings |-> <<>>]

sanitizeUrl(u) == SanitizeUrlCall(JsString(u)).result

\* ^ under the m flag
AtLineStart(s, i) == i = 1 \/ s[i - 1][1] \in LineTerminators

\* the last position of the line that position i lies on
LineEnd(s, i) ==
    LET t == FirstIn(s, i, LineTerminators)
    IN  IF t = 0 THEN Len(s) ELSE t - 1

\* n times the character c
Run(c, n) == [k \in 1..n |-> c]

\* first position >= i where the characters cs stand, 0 when nowhere
IndexOf(s, cs, i) ==
    IF \A j \in i..Len(s) : ~StartsWithAt(s, j, cs) THEN 0
    ELSE CHOOSE p \in i..Len(s) :
             StartsWithAt(s, p, cs) /\ \A j \in i..(p - 1) : ~StartsWithAt(s, j, cs)

\* /DDD([^c]+)DDD/ with D = c, n times: the delimiter, one or more characters other
\* than c, the delimiter
DelimitedMatch(s, i, c, n) ==
    IF ~StartsWithAt(s, i, Run(c, n)) THEN 0
    ELSE LET k == FirstIn(s, i + n, {c})
         IN  IF k > i + n /\ StartsWithAt(s, k, Run(c, n)) THEN k + n - 1 ELSE 0

\* s.split(sep): the pieces between the occurrences of sep, found from left to right
RECURSIVE Split(_, _, _)
Split(s, sep, from) ==
    LET k == IndexOf(s, sep, from)
    IN  IF k = 0 THEN << SubSeq(s, from, Len(s)) >>
        ELSE << SubSeq(s, from, k - 1) >> \o Split(s, sep, k + Len(sep))

\* lines.join(sep); the separators written are those split took out
RECURSIVE Join(_, _)
Join(ss, sep) ==
    IF ss = <<>> THEN <<>>
    ELSE IF Len(ss) = 1 THEN ss[1]
    ELSE ss[1] \o sep \o Join(Tail(ss), sep)

NewLine == << <<"\n", "u">> >>

(***************************************************************************)
(* MarkdownParser                                                          *)
(***************************************************************************)
HtmlSpecials == {"&", "<", ">", "\"", "'"}

\* the map of MarkdownParser.escapeHtml
ParserEntity(c) ==
    IF c = "&" THEN <<"&", "a", "m", "p", ";">>
    ELSE IF c = "<" THEN <<"&", "l", "t", ";">>
    ELSE IF c = ">" THEN <<"&", "g", "t", ";">>
    ELSE IF c = "\"" THEN <<"&", "q", "u", "o", "t", ";">>
    ELSE <<"&", "#", "0", "3", "9">>

\* escapeHtml with the apostrophe forgotten
ParserEscapeHtml_WithoutApostrophe(s) ==
    Flatten([i \in 1..Len(s) |->
                IF s[i][1] \in HtmlSpecials \ {"'"} THEN Str(ParserEntity(s[i][1]), "e")
                ELSE << s[i] >>])

ParserEscapeHtml(s) ==
    Flatten([i \in 1..Len(s) |->
                IF s[i][1] \in HtmlSpecials THEN Str(ParserEntity(s[i][1]), "e")
                ELSE << s[i] >>])

\* generatePlaceholder(prefix) for the encoded identifier enc: __prefix_enc__
GeneratePlaceholder(prefix, enc) ==
    Str(<<"_", "_">> \o prefix \o <<"_">> \o enc \o <<"_", "_">>, "p")

CODE_BLOCK == <<"C", "O", "D", "E", "_", "B", "L", "O", "C", "K">>

Fence == <<"BT", "BT", "BT">>

\* /```([^\n]*)\n([\s\S]*?)```/: the line break that ends the first group
FenceBreak(s, i) == FirstIn(s, i + 3, {"\n"})

\* the closing fence of the block opened at i, 0 when there is none
FenceClose(s, i) ==
    IF FenceBreak(s, i) = 0 THEN 0 ELSE IndexOf(s, Fence, FenceBreak(s, i) + 1)

CodeBlockMatch(s, i) ==
    IF StartsWithAt(s, i, Fence) /\ FenceClose(s, i) # 0 THEN FenceClose(s, i) + 2 ELSE 0

\* the content stored for the block matched at i: <pre><code>${code.trim()}</code></pre>
CodeBlockContent(s, i) ==
    Gen(<<"<", "p", "r", "e", ">", "<", "c", "o", "d", "e", ">">>)
        \o Trim(SubSeq(s, FenceBreak(s, i) + 1, FenceClose(s, i) - 1))
        \o Gen(<<"<", "/", "c", "o", "d", "e", ">", "<", "/", "p", "r", "e", ">">>)

\* parseCodeBlocks: encs[k] is the identifier that generatePlaceholder draws for the
\* k-th block; html is the text returned, codeBlocks the context's array
ParseCodeBlocks(s, encs) ==
    LET ms == MatchesOf(s, CodeBlockMatch)
        R(t, i, e, k) == GeneratePlaceholder(CODE_BLOCK, encs[k])
    IN  [html |-> ReplaceAll(s, CodeBlockMatch, R),
         codeBlocks |-> [k \in 1..Len(ms) |->
                            [placeholder |-> GeneratePlaceholder(CODE_BLOCK, encs[k]),
                             content |-> CodeBlockContent(s, ms[k][1])]]]

\* the replacement patterns of String.prototype.replace in the replacement text rep,
\* for the match s[i..e]: $$, $&, $` and $' ; there are no capture groups
ExpandReplacement(rep, s, i, e) ==
    LET M(t, j) == IF t[j][1] = "$" /\ j < Len(t) /\ t[j + 1][1] \in {"$", "&", "BT", "'"}
                     THEN j + 1 ELSE 0
        R(t, j, f, k) == CASE t[f][1] = "$" -> << t[j] >>
                           [] t[f][1] = "&" -> SubSeq(s, i, e)
                           [] t[f][1] = "BT" -> SubSeq(s, 1, i - 1)
                           [] t[f][1] = "'" -> SubSeq(s, e + 1, Len(s))
    IN  ReplaceAll(rep, M, R)

\* text.replace(pattern, rep) with a string pattern: the first occurrence only
ReplaceFirst(s, pattern, rep) ==
    LET i == IndexOf(s, Plain(pattern), 1)
        e == i + Len(pattern) - 1
    IN  IF s = <<>> \/ i = 0 THEN s
        ELSE SubSeq(s, 1, i - 1) \o ExpandReplacement(rep, s, i, e)
               \o SubSeq(s, e + 1, Len(s))

RECURSIVE RestoreCodeBlocks(_, _, _)
RestoreCodeBlocks(s, codeBlocks, k) ==
    IF k > Len(codeBlocks) THEN s
    ELSE RestoreCodeBlocks(ReplaceFirst(s, codeBlocks[k].placeholder, codeBlocks[k].content),
                           codeBlocks, k + 1)

\* <name> and </name>
OpenTag(name) == Gen(<<"<">> \o name \o <<">">>)
CloseTag(name) == Gen(<<"<", "/">> \o name \o <<">">>)
Wrap(name, s) == OpenTag(name) \o s \o CloseTag(name)

\* the replacement '<name>$1</name>' for a match of /DDD([^c]+)DDD/ with n delimiters
WrapInner(name, s, i, e, n) == Wrap(name, SubSeq(s, i + n, e - n))

\* parseInlineCode: /`([^`]+)`/g
ParseInlineCode(s) ==
    LET M(t, i) == DelimitedMatch(t, i, "BT", 1)
        R(t, i, e, k) == WrapInner(<<"c", "o", "d", "e">>, t, i, e, 1)
    IN  ReplaceAll(s, M, R)

\* /^(#{1,6})\s+(.+)$/m at i: where group 2 starts, 0 when there is no match.
\* \s+ takes the longest run of white space that leaves a character other than a
\* line terminator for (.+).
HeaderContentStart(s, i) ==
    LET p == FirstNotIn(s, i, {"#"})
        w == FirstNotIn(s, p, WhiteSpace)
        back == {r \in (p + 1)..Len(s) : s[r][1] \notin LineTerminators}
    IN  IF ~AtLineStart(s, i) \/ p = i \/ p - i > 6 \/ w = p THEN 0
        ELSE IF w <= Len(s) THEN w
        ELSE IF back = {} THEN 0
        ELSE Max(back)

HeaderMatch(s, i) ==
    IF i > Len(s) \/ s[i][1] # "#" \/ HeaderContentStart(s, i) = 0 THEN 0
    ELSE LineEnd(s, HeaderContentStart(s, i))

\* `<h${level}>${content.trim()}</h${level}>`
HeaderReplacement(s, i, e, k) ==
    LET level == FirstNotIn(s, i, {"#"}) - i
        name == <<"h", Ascii[49 + level]>>
    IN  Wrap(name, Trim(SubSeq(s, HeaderContentStart(s, i), e)))

ParseHeaders(s) == ReplaceAll(s, HeaderMatch, HeaderReplacement)

\* /^---+$/gm
RuleMatch(s, i) ==
    LET d == FirstNotIn(s, i, {"-"})
    IN  IF AtLineStart(s, i) /\ d - i >= 3 /\ (d > Len(s) \/ s[d][1] \in LineTerminators)
          THEN d - 1 ELSE 0

ParseRules(s) ==
    LET R(t, i, e, k) == OpenTag(<<"h", "r">>)
    IN  ReplaceAll(s, RuleMatch, R)

Blockquote(content) ==
    Wrap(<<"b", "l", "o", "c", "k", "q", "u", "o", "t", "e">>, Join(content, NewLine))

\* the forEach of parseBlockquotes over lines[k..]: st holds result, inBlockquote and
\* blockquoteContent
RECURSIVE BlockquoteLines(_, _, _)
BlockquoteLines(lines, k, st) ==
    IF k > Len(lines) THEN st
    ELSE IF StartsWith(lines[k], <<">", " ">>)
      THEN BlockquoteLines(lines, k + 1,
              [result |-> st.result, inBlockquote |-> TRUE,
               blockquoteContent |->
                   Append(IF st.inBlockquote THEN st.blockquoteContent ELSE <<>>,
                          SubSeq(lines[k], 3, Len(lines[k])))])
    ELSE BlockquoteLines(lines, k + 1,
              [result |-> (IF st.inBlockquote
                             THEN Append(st.result, Blockquote(st.blockquoteContent))
                             ELSE st.result) \o << lines[k] >>,
               inBlockquote |-> FALSE, blockquoteContent |-> <<>>])

ParseBlockquotes(s) ==
    LET st == BlockquoteLines(Split(s, <<"\n">>, 1), 1,
                  [result |-> <<>>, inBlockquote |-> FALSE, blockquoteContent |-> <<>>])
    IN  IF s = <<>> THEN s
        ELSE Join(IF st.inBlockquote
                    THEN Append(st.result, Blockquote(st.blockquoteContent))
                    ELSE st.result, NewLine)

\* /^MARKER\s+(.+)$/ on one line whose marker ends at position m: where group 1
\* starts, 0 when there is no match
ItemContentStart(line, m) ==
    LET w == FirstNotIn(line, m + 1, WhiteSpace)
        back == {r \in (m + 2)..Len(line) : line[r][1] \notin LineTerminators}
    IN  IF w = m + 1 THEN 0
        ELSE IF w <= Len(line)
          THEN (IF LineEnd(line, w) = Len(line) THEN w ELSE 0)
        ELSE IF back = {} \/ Max(back) # Len(line) THEN 0
        ELSE Max(back)

\* line.match(/^[\*\-]\s+(.+)$/): where group 1 starts, 0 when null
UlMatch(line) ==
    IF line # <<>> /\ line[1][1] \in {"*", "-"} THEN ItemContentStart(line, 1) ELSE 0

\* no line taken for an ordered item
OlMatch_Never(line) == 0

\* line.match(/^\d+\.\s+(.+)$/): where group 1 starts, 0 when null
OlMatch(line) ==
    LET d == FirstNotIn(line, 1, Digits)
    IN  IF d > 1 /\ d <= Len(line) /\ line[d][1] = "." THEN ItemContentStart(line, d) ELSE 0

ListItem(line, from) == Wrap(<<"l", "i">>, SubSeq(line, from, Len(line)))

\* the forEach with the other list left open when a list of the other kind starts
RECURSIVE ListLines_OtherLeftOpen(_, _, _)
ListLines_OtherLeftOpen(lines, k, st) ==
    IF k > Len(lines) THEN st
    ELSE LET line == lines[k]
             ul == UlMatch(line)
             ol == OlMatch(line)
         IN  IF ul # 0
               THEN ListLines_OtherLeftOpen(lines, k + 1,
                      [result |-> st.result
                          \o (IF ~st.inUl THEN << OpenTag(<<"u", "l">>) >> ELSE <<>>)
                          \o << ListItem(line, ul) >>,
                       inUl |-> TRUE, inOl |-> st.inOl])
             ELSE IF ol # 0
               THEN ListLines_OtherLeftOpen(lines, k + 1,
                      [result |-> st.result
                          \o (IF ~st.inOl THEN << OpenTag(<<"o", "l">>) >> ELSE <<>>)
                          \o << ListItem(line, ol) >>,
                       inUl |-> st.inUl, inOl |-> TRUE])
             ELSE ListLines_OtherLeftOpen(lines, k + 1,
                      [result |-> st.result
                          \o (IF st.inUl THEN << CloseTag(<<"u", "l">>) >> ELSE <<>>)
                          \o (IF st.inOl THEN << CloseTag(<<"o", "l">>) >> ELSE <<>>)
                          \o << line >>,
                       inUl |-> FALSE, inOl |-> FALSE])

\* the forEach of parseLists over lines[k..]: st holds result, inUl and inOl
RECURSIVE ListLines(_, _, _)
ListLines(lines, k, st) ==
    IF k > Len(lines) THEN st
    ELSE LET line == lines[k]
             ul == UlMatch(line)
             ol == OlMatch(line)
         IN  IF ul # 0
               THEN ListLines(lines, k + 1,
                      [result |-> st.result
                          \o (IF ~st.inUl /\ st.inOl THEN << CloseTag(<<"o", "l">>) >> ELSE <<>>)
                          \o (IF ~st.inUl THEN << OpenTag(<<"u", "l">>) >> ELSE <<>>)
                          \o << ListItem(line, ul) >>,
                       inUl |-> TRUE,
                       inOl |-> IF ~st.inUl THEN FALSE ELSE st.inOl])
             ELSE IF ol # 0
               THEN ListLines(lines, k + 1,
                      [result |-> st.result
                          \o (IF ~st.inOl /\ st.inUl THEN << CloseTag(<<"u", "l">>) >> ELSE <<>>)
                          \o (IF ~st.inOl THEN << OpenTag(<<"o", "l">>) >> ELSE <<>>)
                          \o << ListItem(line, ol) >>,
                       inUl |-> IF ~st.inOl THEN FALSE ELSE st.inUl,
                       inOl |-> TRUE])
             ELSE ListLines(lines, k + 1,
                      [result |-> st.result
                          \o (IF st.inUl THEN << CloseTag(<<"u", "l">>) >> ELSE <<>>)
                          \o (IF st.inOl THEN << CloseTag(<<"o", "l">>) >> ELSE <<>>)
                          \o << line >>,
                       inUl |-> FALSE, inOl |-> FALSE])

ParseLists(s) ==
    LET st == ListLines(Split(s, <<"\n">>, 1), 1,
                        [result |-> <<>>, inUl |-> FALSE, inOl |-> FALSE])
    IN  IF s = <<>> THEN s
        ELSE Join(st.result
                    \o (IF st.inUl THEN << CloseTag(<<"u", "l">>) >> ELSE <<>>)
                    \o (IF st.inOl THEN << CloseTag(<<"o", "l">>) >> ELSE <<>>), NewLine)

\* /\[([^\]]S)\]\(([^)]+)\)/ with the bracket at position b: S is * when emptyOk, else +.
\* The last position of the match, 0 when there is none.
BracketMatch(s, b, emptyOk) ==
    IF b > Len(s) \/ s[b][1] # "[" THEN 0
    ELSE LET c == FirstIn(s, b + 1, {"]"})
             e == FirstIn(s, c + 2, {")"})
         IN  IF c = 0 \/ (c = b + 1 /\ ~emptyOk) THEN 0
             ELSE IF c + 1 > Len(s) \/ s[c + 1][1] # "(" THEN 0
             ELSE IF e > c + 2 THEN e ELSE 0

\* group 1 and group 2 of a bracket match whose bracket is at b and whose end is e
BracketText(s, b) == SubSeq(s, b + 1, FirstIn(s, b + 1, {"]"}) - 1)
BracketUrl(s, b, e) == SubSeq(s, FirstIn(s, b + 1, {"]"}) + 2, e - 1)

\* /!\[([^\]]*)\]\(([^)]+)\)/g
ImageMatch(s, i) == IF s[i][1] = "!" THEN BracketMatch(s, i + 1, TRUE) ELSE 0

ImageReplacement(s, i, e, k) ==
    LET safeUrl == sanitizeUrl(BracketUrl(s, i + 1, e))
        safeAlt == BracketText(s, i + 1)
    IN  IF safeUrl # <<>>
          THEN Gen(<<"<", "i", "m", "g", " ", "s", "r", "c", "=", "\"">>) \o safeUrl
                 \o Gen(<<"\"", " ", "a", "l", "t", "=", "\"">>) \o safeAlt \o Gen(<<"\"", ">">>)
          ELSE Gen(<<"<", "s", "p", "a", "n", ">", "[", "I", "m", "a", "g", "e", ":", " ">>)
                 \o safeAlt \o Gen(<<"]", "<", "/", "s", "p", "a", "n", ">">>)

ParseImages(s) == ReplaceAll(s, ImageMatch, ImageReplacement)

\* /\[([^\]]+)\]\(([^)]+)\)/g
LinkMatch(s, i) == BracketMatch(s, i, FALSE)

\* the link written without asking sanitizeUrl
LinkReplacement_Unsanitized(s, i, e, k) ==
    Gen(<<"<", "a", " ", "h", "r", "e", "f", "=", "\"">>) \o BracketUrl(s, i, e)
        \o Gen(<<"\"", ">">>) \o BracketText(s, i) \o Gen(<<"<", "/", "a", ">">>)

LinkReplacement(s, i, e, k) ==
    LET safeUrl == sanitizeUrl(BracketUrl(s, i, e))
        safeText == BracketText(s, i)
    IN  IF safeUrl # <<>>
          THEN Gen(<<"<", "a", " ", "h", "r", "e", "f", "=", "\"">>) \o safeUrl
                 \o Gen(<<"\"", ">">>) \o safeText \o Gen(<<"<", "/", "a", ">">>)
          ELSE Gen(<<"<", "s", "p", "a", "n", ">", "[">>) \o safeText
                 \o Gen(<<"]", "<", "/", "s", "p", "a", "n", ">">>)

ParseLinks(s) == ReplaceAll(s, LinkMatch, LinkReplacement)

Strong == <<"s", "t", "r", "o", "n", "g">>
Em == <<"e", "m">>

\* html.replace(/DDD([^c]+)DDD/g, '<strong><em>$1</em></strong>')
BoldItalicPass(s, c) ==
    LET M(t, i) == DelimitedMatch(t, i, c, 3)
        R(t, i, e, k) == Wrap(Strong, WrapInner(Em, t, i, e, 3))
    IN  ReplaceAll(s, M, R)

\* html.replace(/DD([^c]+)DD/g, '<strong>$1</strong>')
BoldPass(s, c) ==
    LET M(t, i) == DelimitedMatch(t, i, c, 2)
        R(t, i, e, k) == WrapInner(Strong, t, i, e, 2)
    IN  ReplaceAll(s, M, R)

\* html.replace(/D([^c]+)D/g, '<em>$1</em>')
ItalicPass(s, c) ==
    LET M(t, i) == DelimitedMatch(t, i, c, 1)
        R(t, i, e, k) == WrapInner(Em, t, i, e, 1)
    IN  ReplaceAll(s, M, R)

\* the six replaces of "Parse bold and italic", in the order of the code
ParseEmphasis(s) ==
    ItalicPass(BoldPass(BoldItalicPass(
        ItalicPass(BoldPass(BoldItalicPass(s, "*"), "*"), "*"), "_"), "_"), "_")

\* html.replace(/~~([^~]+)~~/g, '<del>$1</del>')
ParseStrikethrough(s) ==
    LET M(t, i) == DelimitedMatch(t, i, "~", 2)
        R(t, i, e, k) == WrapInner(<<"d", "e", "l">>, t, i, e, 2)
    IN  ReplaceAll(s, M, R)

\* the test made on &lt; as if it were <
LooksLikeHtml_Entity(s) == StartsWith(s, <<"&", "l", "t", ";">>)

\* /^<\/?[a-zA-Z][a-zA-Z0-9]*/.test(trimmed)
LooksLikeHtml(s) ==
    /\ s # <<>>
    /\ s[1][1] = "<"
    /\ LET a == IF Len(s) >= 2 /\ s[2][1] = "/" THEN 3 ELSE 2
       IN  a <= Len(s) /\ s[a][1] \in Letters

ParagraphBlock(block) ==
    LET trimmed == Trim(block)
    IN  IF trimmed = <<>> THEN <<>>
        ELSE IF LooksLikeHtml(trimmed) THEN trimmed
        ELSE IF FirstIn(trimmed, 1, {"\n"}) # 0 /\ ~LooksLikeHtml(trimmed) THEN trimmed
        ELSE Wrap(<<"p">>, trimmed)

ParseParagraphs(s) ==
    LET blocks == Split(s, <<"\n", "\n">>, 1)
    IN  IF s = <<>> THEN s
        ELSE Join([k \in 1..Len(blocks) |-> ParagraphBlock(blocks[k])], NewLine \o NewLine)

\* the passes of parse between parseCodeBlocks and restoreCodeBlocks
ParseMiddle(s) ==
    ParseParagraphs(ParseStrikethrough(ParseEmphasis(ParseLinks(ParseImages(
        ParseLists(ParseBlockquotes(ParseRules(ParseHeaders(ParseInlineCode(s))))))))))

\* MarkdownParser.parse(markdown); encs are the identifiers that generatePlaceholder
\* draws, in the order of the calls
Parse(markdown, encs) ==
    IF Falsy(markdown) THEN <<>>
    ELSE LET extracted == ParseCodeBlocks(ParserEscapeHtml(markdown.val), encs)
         IN  RestoreCodeBlocks(ParseMiddle(extracted.html), extracted.codeBlocks, 1)

\* the number of generatePlaceholder calls that parse(markdown) makes
PlaceholderCalls(markdown) ==
    IF Falsy(markdown) THEN 0
    ELSE Len(MatchesOf(ParserEscapeHtml(markdown.val), CodeBlockMatch))

(***************************************************************************)
(* SyntaxHighlighter                                                       *)
(***************************************************************************)
\* the map of SyntaxHighlighter.escapeHtml
HighlighterEntity(c) ==
    IF c = "'" THEN <<"&", "#", "0", "3", "9", ";">> ELSE ParserEntity(c)

HighlighterEscapeHtml(s) ==
    Flatten([i \in 1..Len(s) |->
                IF s[i][1] \in HtmlSpecials THEN Str(HighlighterEntity(s[i][1]), "e")
                ELSE << s[i] >>])

SpanOpen(class) ==
    Gen(<<"<", "s", "p", "a", "n", " ", "c", "l", "a", "s", "s", "=", "\"",
          "s", "y", "n", "t", "a", "x", "-">> \o class \o <<"\"", ">">>)

SpanClose == Gen(<<"<", "/", "s", "p", "a", "n", ">">>)

Span(class, inner) == SpanOpen(class) \o inner \o SpanClose

ClassBold == <<"b", "o", "l", "d">>
ClassItalic == <<"i", "t", "a", "l", "i", "c">>
ClassCodeBlock == <<"c", "o", "d", "e", "-", "b", "l", "o", "c", "k">>
ClassCode == <<"c", "o", "d", "e">>
ClassHeader == <<"h", "e", "a", "d", "e", "r">>
ClassLink == <<"l", "i", "n", "k">>
ClassList == <<"l", "i", "s", "t">>
ClassQuote == <<"q", "u", "o", "t", "e">>

\* the decimal digits of n, as template literals write a number
RECURSIVE Decimal(_)
Decimal(n) ==
    IF n < 10 THEN << Ascii[49 + n] >> ELSE Decimal(n \div 10) \o << Ascii[49 + (n % 10)] >>

\* `__INLINE_FORMAT_${index}__`
InlineFormatPlaceholder(index) ==
    Str(<<"_", "_", "I", "N", "L", "I", "N", "E", "_", "F", "O", "R", "M", "A", "T", "_">>
          \o Decimal(index) \o <<"_", "_">>, "p")

\* one replace of extractInlineFormats: the runs between n characters c become
\* placeholders, their spans of the given class are pushed on inlineFormats
ExtractPass(st, c, n, class) ==
    LET M(t, i) == DelimitedMatch(t, i, c, n)
        ms == MatchesOf(st.text, M)
        R(t, i, e, k) == InlineFormatPlaceholder(Len(st.inlineFormats) + k - 1)
    IN  [text |-> ReplaceAll(st.text, M, R),
         inlineFormats |-> st.inlineFormats
             \o [k \in 1..Len(ms) |-> Span(class, SubSeq(st.text, ms[k][1], ms[k][2]))]]

ExtractInlineFormats(s) ==
    ExtractPass(ExtractPass(ExtractPass(ExtractPass(ExtractPass(
        [text |-> s, inlineFormats |-> <<>>],
        "*", 3, ClassBold), "*", 2, ClassBold), "_", 2, ClassBold),
        "*", 1, ClassItalic), "_", 1, ClassItalic)

RECURSIVE RestoreInlineFormats(_, _, _)
RestoreInlineFormats(s, inlineFormats, k) ==
    IF k > Len(inlineFormats) THEN s
    ELSE RestoreInlineFormats(
             ReplaceFirst(s, InlineFormatPlaceholder(k - 1), inlineFormats[k]),
             inlineFormats, k + 1)

\* /```([\s\S]*?)```/g
HlCodeBlockMatch(s, i) ==
    LET c == IndexOf(s, Fence, i + 3)
    IN  IF StartsWithAt(s, i, Fence) /\ c # 0 THEN c + 2 ELSE 0

\* '<span class="syntax-code-block">```$1```</span>'
HlCodeBlocks(s) ==
    LET R(t, i, e, k) == Span(ClassCodeBlock, SubSeq(t, i, e))
    IN  ReplaceAll(s, HlCodeBlockMatch, R)

\* /`([^`]+)`/g to '<span class="syntax-code">`$1`</span>'
HlInlineCode(s) ==
    LET M(t, i) == DelimitedMatch(t, i, "BT", 1)
        R(t, i, e, k) == Span(ClassCode, SubSeq(t, i, e))
    IN  ReplaceAll(s, M, R)

\* /^(#{1,6})\s+(.+)$/gm to '<span class="syntax-header">$1 $2</span>'
HlHeaders(s) ==
    LET R(t, i, e, k) ==
            Span(ClassHeader, SubSeq(t, i, FirstNotIn(t, i, {"#"}) - 1) \o Gen(<<" ">>)
                                \o SubSeq(t, HeaderContentStart(t, i), e))
    IN  ReplaceAll(s, HeaderMatch, R)

\* /!?\[([^\]]*)\]\(([^)]+)\)/g to '<span class="syntax-link">$&</span>'
HlLinks(s) ==
    LET M(t, i) == IF t[i][1] = "!" THEN BracketMatch(t, i + 1, TRUE)
                   ELSE BracketMatch(t, i, TRUE)
        R(t, i, e, k) == Span(ClassLink, SubSeq(t, i, e))
    IN  ReplaceAll(s, M, R)

\* the last position of the list marker ([\*\-]|\d+\.) that starts at i, 0 when none
ListMarkerEnd(s, i) ==
    LET d == FirstNotIn(s, i, Digits)
    IN  IF s[i][1] \in {"*", "-"} THEN i
        ELSE IF d > i /\ d <= Len(s) /\ s[d][1] = "." THEN d
        ELSE 0

\* MARKER\s+ at the start of a line, the marker ending at position m: the last
\* position of the white space, 0 when there is none
MarkerSpaceEnd(s, i, m) ==
    IF ~AtLineStart(s, i) \/ m = 0 \/ FirstNotIn(s, m + 1, WhiteSpace) = m + 1 THEN 0
    ELSE FirstNotIn(s, m + 1, WhiteSpace) - 1

\* /^([\*\-]|\d+\.)\s+/gm to '<span class="syntax-list">$1 </span>'
HlLists(s) ==
    LET M(t, i) == MarkerSpaceEnd(t, i, ListMarkerEnd(t, i))
        R(t, i, e, k) == Span(ClassList, SubSeq(t, i, ListMarkerEnd(t, i)) \o Gen(<<" ">>))
    IN  ReplaceAll(s, M, R)

\* /^(&gt;)\s+/gm to '<span class="syntax-quote">&gt; </span>'
HlQuotes(s) ==
    LET M(t, i) == MarkerSpaceEnd(t, i, IF StartsWithAt(t, i, <<"&", "g", "t", ";">>)
                                         THEN i + 3 ELSE 0)
        R(t, i, e, k) == Span(ClassQuote, Gen(<<"&", "g", "t", ";", " ">>))
    IN  ReplaceAll(s, M, R)

\* SyntaxHighlighter.highlight(text)
Highlight(t) ==
    IF Falsy(t) THEN <<>>
    ELSE LET extracted == ExtractInlineFormats(HighlighterEscapeHtml(t.val))
         IN  RestoreInlineFormats(
                 HlQuotes(HlLists(HlLinks(HlHeaders(HlInlineCode(HlCodeBlocks(
                     extracted.text)))))),
                 extracted.inlineFormats, 1)

(***************************************************************************)
(* The URLs handed to sanitizeUrl.  A URL of kind "scheme" is              *)
(*   [pad] name [pad inside or after the name] separator "//x" [pad]       *)
(* with the name in one of four letter cases, its first letter written     *)
(* plainly or as an escape, the separator ":" or "%3A", and one run of     *)
(* white space or control characters at one place.                         *)
(***************************************************************************)
MaxPad == 1

DeniedNames ==
    { <<"j", "a", "v", "a", "s", "c", "r", "i", "p", "t">>, <<"d", "a", "t", "a">>,
      <<"v", "b", "s", "c", "r", "i", "p", "t">>, <<"f", "i", "l", "e">>,
      <<"a", "b", "o", "u", "t">> }

AllowedNames ==
    { <<"h", "t", "t", "p">>, <<"h", "t", "t", "p", "s">>, <<"m", "a", "i", "l", "t", "o">>,
      <<"f", "t", "p">>, <<"f", "t", "p", "s">> }

OtherNames == { <<"t", "e", "l">> }

SchemeNames == DeniedNames \cup AllowedNames \cup OtherNames

CaseForms == {"lower", "upper", "alternating", "capital"}

UpperOf(c) == Ascii[CodeOf(c) - 32]

ApplyCase(name, form) ==
    [i \in 1..Len(name) |->
        IF \/ form = "upper"
           \/ form = "alternating" /\ i % 2 = 1
           \/ form = "capital" /\ i = 1
        THEN UpperOf(name[i]) ELSE name[i]]

HexChars == <<"0", "1", "2", "3", "4", "5", "6", "7", "8", "9", "A", "B", "C", "D", "E", "F">>

\* the escape %XX of an ASCII character
EscapeOf(c) ==
    LET code == CodeOf(c) - 1
    IN  <<"%", HexChars[(code \div 16) + 1], HexChars[(code % 16) + 1]>>

PadChars == {" ", "\t", "\n", "SOH"}

PadRuns == UNION {[1..n -> PadChars] : n \in 1..MaxPad}

Places(name) ==
    {[at |-> a, k |-> 0] : a \in {"before", "after", "end", "around"}}
        \cup {[at |-> "inside", k |-> k] : k \in 1..(Len(name) - 1)}

NoPad == [at |-> "none", k |-> 0]

SchemeTail == <<"/", "/", "x">>

\* the characters of the URL that the parameters g describe
SchemeUrl(g) ==
    LET spelled == ApplyCase(g.name, g.form)
        first == IF g.escaped THEN EscapeOf(spelled[1]) ELSE <<spelled[1]>>
        head == IF g.place.at = "inside" THEN SubSeq(spelled, 2, g.place.k) ELSE Tail(spelled)
        rest == IF g.place.at = "inside"
                  THEN SubSeq(spelled, g.place.k + 1, Len(spelled)) ELSE <<>>
        at(a) == IF g.place.at = a \/ (g.place.at = "around" /\ a \in {"before", "end"})
                   THEN g.pad ELSE <<>>
    IN  at("before") \o first \o head \o at("inside") \o rest \o at("after")
          \o g.sep \o SchemeTail \o at("end")

SchemeGens ==
    { [kind |-> "scheme", name |-> n, form |-> f, escaped |-> e, sep |-> sp,
       place |-> pl, pad |-> pd] :
        n \in SchemeNames, f \in CaseForms, e \in BOOLEAN,
        sp \in { <<":">>, <<"%", "3", "A">> },
        pl \in {NoPad}, pd \in { <<>> } }
    \cup
    UNION { { [kind |-> "scheme", name |-> n, form |-> f, escaped |-> e, sep |-> sp,
               place |-> pl, pad |-> pd] :
                f \in CaseForms, e \in BOOLEAN,
                sp \in { <<":">>, <<"%", "3", "A">> },
                pl \in Places(n), pd \in PadRuns } : n \in SchemeNames }

\* URLs of other shapes: relative, protocol-relative, empty, blank, badly escaped,
\* escapes of more than one octet
OtherUrls ==
    { <<>>, <<" ">>, <<".", "/", "t", ".", "m", "d">>, <<"/", "/", "x">>, <<"#", "a">>,
      <<"x", "?", "a", "=", "%", "2", "0">>, <<"%">>, <<"x", "%", "4">>, <<"%", "z", "z">>,
      <<"%", "8", "0">>, <<"%", "C", "0", "%", "8", "0">>,
      <<"%", "C", "2", "%", "A", "0", "f", "i", "l", "e", ":">>,
      <<"%", "E", "2", "%", "8", "0", "%", "A", "8", "x">>,
      <<"%", "F", "0", "%", "9", "F", "%", "9", "8", "%", "8", "0">>,
      <<"KELVIN", ":", "x">>, <<"f", "IDOT", "l", "e", ":">>,
      <<"1", "a", ":", "x">>, <<"a", "+", ".", "-", "1", ":", "x">>,
      <<".", ".", "/", "x">>, <<"/", "a", ":", "b">>, <<"/", "/", "x", ":", "8", "/", "y">>,
      <<" ", ".", "/", "a", " ">>, <<"a", "%", "2", "F", "b", "%", "3", "A", "c">> }

UrlInputs ==
    { [gen |-> g, val |-> JsString(User(SchemeUrl(g)))] : g \in SchemeGens }
    \cup { [gen |-> [kind |-> "other"], val |-> JsString(User(u))] : u \in OtherUrls }
    \cup { [gen |-> [kind |-> "other"], val |-> v] : v \in {JsNull, JsNumber} }

(***************************************************************************)
(* Timers: setTimeout and clearTimeout.  Time is counted in milliseconds   *)
(* and passes in steps of TickMs; a timer is known by the function it runs *)
(* and the time left.                                                      *)
(***************************************************************************)
TickMs == 50
EDITOR_DEBOUNCE_MS == 150
SAVE_DEBOUNCE_MS == 1000

\* the time since the last input event is not counted beyond this
QuietMs == EDITOR_DEBOUNCE_MS + 2 * TickMs

\* a variable that holds a timer: the value of setTimeout, or undefined
NoTimeout == [set |-> FALSE, fn |-> "", left |-> 0]
TimeoutOf(fn, delay) == [set |-> TRUE, fn |-> fn, left |-> delay]

\* clearTimeout that clears nothing
ClearTimeout_Nothing(ts, id) == ts

\* clearTimeout(id), setTimeout(fn, delay)
ClearTimeout(ts, id) == IF id.set THEN ts \ { [fn |-> id.fn, left |-> id.left] } ELSE ts
SetTimeout(ts, fn, delay) == ts \cup { [fn |-> fn, left |-> delay] }

\* a variable that holds a timer, after the timer t fired and after d milliseconds
AfterFired(id, t) == IF id.set /\ id.fn = t.fn /\ id.left = t.left THEN NoTimeout ELSE id
AfterMs(id, d) == IF id.set THEN [id EXCEPT !.left = id.left - d] ELSE id

Min(a, b) == IF a < b THEN a ELSE b

(***************************************************************************)
(* PerformanceUtils.throttle and the scroll handler                        *)
(***************************************************************************)
\* throttled() without the test of rafId
Throttled_Unguarded(sc) == [sc EXCEPT !.rafId = TRUE, !.callbacks = sc.callbacks + 1]

\* throttled(): if (rafId !== null) return; rafId = requestAnimationFrame(...)
Throttled(sc) ==
    IF sc.rafId THEN sc
    ELSE [sc EXCEPT !.rafId = TRUE, !.callbacks = sc.callbacks + 1]

\* the frame callback: func.apply(this, args), which copies the scroll position of the
\* editor as it is now to the highlight layer, and rafId = null
FrameCallback(sc) == [sc EXCEPT !.highlight = sc.editor, !.rafId = FALSE]

\* n frame callbacks run one after the other
RECURSIVE FrameCallbacks(_, _)
FrameCallbacks(sc, n) == IF n = 0 THEN sc ELSE FrameCallbacks(FrameCallback(sc), n - 1)

(***************************************************************************)
(* Editor                                                                  *)
(***************************************************************************)
\* value.substring(0, a) + cs + value.substring(b), the cursor at position c
WithValue(ed, a, cs, b, c) ==
    [value |-> SubSeq(ed.value, 1, a) \o cs \o SubSeq(ed.value, b + 1, Len(ed.value)),
     selectionStart |-> c, selectionEnd |-> c]

\* Editor.scheduleSave: the save timer is started again, the status is "Unsaved"
ScheduleSave(ts, sv) ==
    [timers |-> SetTimeout(ClearTimeout(ts, sv.saveTimeout), "save", SAVE_DEBOUNCE_MS),
     save |-> [sv EXCEPT !.saveTimeout = TimeoutOf("save", SAVE_DEBOUNCE_MS),
                         !.status = "Unsaved"]]

\* what Editor.updatePreview writes into the two panes for the text v
Rendered(v) ==
    [preview |-> Parse(JsString(v), <<>>), highlight |-> Highlight(JsString(v))]

\* Editor.updatePreview on the editor ed, with the timers ts, the debounce record db and
\* the save record sv of the handler that calls it; the run is counted
UpdatePreview(ed, ts, db, sv) ==
    /\ panes' = Rendered(ed.value)
    /\ timers' = ScheduleSave(ts, sv).timers
    /\ save' = ScheduleSave(ts, sv).save
    /\ debounce' = [db EXCEPT !.ran = Min(db.ran + 1, 2), !.ranAt = db.sinceInput,
                              !.covered = db.unseen, !.unseen = 0]

\* PerformanceUtils.debounce: debounced(), called for an input event
Debounced ==
    /\ timers' = SetTimeout(ClearTimeout(timers, debounce.timeoutId), "preview",
                            EDITOR_DEBOUNCE_MS)
    /\ debounce' = [debounce EXCEPT !.timeoutId = TimeoutOf("preview", EDITOR_DEBOUNCE_MS),
                                    !.sinceInput = 0, !.ran = 0, !.ranAt = 0,
                                    !.unseen = Min(debounce.unseen + 1, 2)]

(***************************************************************************)
(* Editor.insertText, ModalDialog, ToolbarActions.link and image           *)
(***************************************************************************)
\* Editor.insertText(before, after, placeholder) up to the call of updatePreview: the
\* editor it leaves
InsertText(ed, before, after, placeholder) ==
    LET start == ed.selectionStart
        end == ed.selectionEnd
        selectedText == SubSeq(ed.value, start + 1, end)
        txt == IF selectedText # <<>> THEN selectedText ELSE placeholder
        newText == before \o txt \o after
    IN  WithValue(ed, start, User(Plain(newText)), end, start + Len(before) + Len(txt))

\* text.lastIndexOf(c, fromIndex), positions counted from 0, -1 when nowhere; a
\* fromIndex below 0 counts as 0
LastIndexOf(s, c, fromIndex) ==
    LET upTo == Min(IF fromIndex < 0 THEN 0 ELSE fromIndex, Len(s) - 1)
        found == { j \in 0..upTo : s[j + 1][1] = c }
    IN  IF found = {} THEN -1 ELSE Max(found)

\* Editor.insertLinePrefix(prefix) up to the call of updatePreview
InsertLinePrefix(ed, prefix) ==
    LET lineStart == LastIndexOf(ed.value, "\n", ed.selectionStart - 1) + 1
    IN  WithValue(ed, lineStart, User(Plain(prefix)), lineStart, lineStart + Len(prefix))

\* CONFIG.TAB_SPACES
TAB_SPACES == Gen(<<" ", " ", " ", " ">>)

\* the keydown handler of the editor for the Tab key
TabKeydown(ed) ==
    WithValue(ed, ed.selectionStart, User(Plain(TAB_SPACES)), ed.selectionEnd,
              ed.selectionStart + Len(TAB_SPACES))

\* ModalDialog.prompt(title, description, label, defaultValue) called by the flow: a
\* new promise, whose resolve function is stored in this.resolve
Prompt(m, flow, defaultValue) ==
    [m EXCEPT !.promises = Append(@, [flow |-> flow, resolved |-> 0, value |-> JsNull,
                                      resumed |-> FALSE]),
              !.resolve = Len(m.promises) + 1,
              !.input = defaultValue,
              !.display = "flex",
              !.last = [kind |-> flow, value |-> JsNull]]

\* ModalDialog.close(value), for the event kind
Close(m, kind, value) ==
    [m EXCEPT !.display = "none",
              !.input = <<>>,
              !.promises = IF m.resolve # 0
                             THEN [@ EXCEPT ![m.resolve] =
                                     [@ EXCEPT !.resolved = @ + 1, !.value = value]]
                             ELSE @,
              !.resolve = 0,
              !.last = [kind |-> kind, value |-> value]]

\* the flow without the test of url
FlowOutcome_Untested(value) ==
    IF SanitizeUrlCall(value).result # <<>> THEN "insert" ELSE "alert"

\* what link() and image() do with the value their promise resolved to, url:
\* if (url) { if (sanitizedUrl) insertText(...) else alert(...) }
FlowOutcome(value) ==
    IF Falsy(value) THEN "nothing"
    ELSE IF SanitizeUrlCall(value).result # <<>> THEN "insert" ELSE "alert"

\* the literals of the two flows
FlowBefore(flow) == IF flow = "link" THEN Gen(<<"[">>) ELSE Gen(<<"!", "[">>)
FlowAfter(sanitizedUrl) == Gen(<<"]", "(">>) \o sanitizedUrl \o Gen(<<")">>)
FlowPlaceholder(flow) ==
    IF flow = "link" THEN Gen(<<"l", "i", "n", "k", " ", "t", "e", "x", "t">>)
    ELSE Gen(<<"a", "l", "t", " ", "t", "e", "x", "t">>)
FlowDefault == User(<<"h", "t", "t", "p", "s", ":", "/", "/">>)

\* the editor after the flow has inserted the markdown for sanitizedUrl
FlowInsert(ed, flow, sanitizedUrl) ==
    InsertText(ed, FlowBefore(flow), FlowAfter(sanitizedUrl), FlowPlaceholder(flow))

\* the promises that are resolved and whose flow has not resumed: the flow resumes in
\* a microtask, before any other event is handled
Resuming(m) == { i \in 1..Len(m.promises) : m.promises[i].resolved > 0
                                            /\ ~m.promises[i].resumed }

(***************************************************************************)
(* The parts of the program that a specification does not call             *)
(***************************************************************************)
\* parseLists not called
ListsIdle ==
    [lines |-> <<>>, k |-> 0, result |-> <<>>, inUl |-> FALSE, inOl |-> FALSE,
     done |-> FALSE, html |-> <<>>]

\* the page as init() leaves it when localStorage holds no text
EditIdle ==
    /\ editor = [value |-> <<>>, selectionStart |-> 0, selectionEnd |-> 0]
    /\ panes = [preview |-> <<>>, highlight |-> <<>>]
    /\ timers = {}
    /\ debounce = [timeoutId |-> NoTimeout, sinceInput |-> QuietMs, ran |-> 0,
                   ranAt |-> 0, unseen |-> 0, covered |-> 0]
    /\ save = [saveTimeout |-> NoTimeout, status |-> "", stored |-> JsNull]

\* nothing scrolled, no frame requested
ScrollIdle ==
    [rafId |-> FALSE, callbacks |-> 0, ranInFrame |-> 0,
     editor |-> [scrollTop |-> 0, scrollLeft |-> 0],
     highlight |-> [scrollTop |-> 0, scrollLeft |-> 0]]

\* the dialog as ModalDialog.init leaves it: hidden, no promise made
ModalIdle ==
    [display |-> "none", input |-> <<>>, resolve |-> 0, promises |-> <<>>,
     alerts |-> <<>>, last |-> [kind |-> "", value |-> JsNull]]

AppIdle ==
    /\ lists = ListsIdle
    /\ EditIdle
    /\ scroll = ScrollIdle
    /\ modal = ModalIdle

(***************************************************************************)
(* Specification of sanitizeUrl: one call on a URL of UrlInputs            *)
(***************************************************************************)
DocIdle ==
    /\ text = [gen |-> [kind |-> "none"], val |-> JsNull]
    /\ preview = NotCalled
    /\ prevPreview = NotCalled
    /\ overlay = NotCalled
    /\ parseCalls = 0

InitUrl ==
    /\ url \in UrlInputs
    /\ urlResult = NotCalled
    /\ urlWarned = <<>>
    /\ DocIdle
    /\ AppIdle

SanitizeUrl ==
    /\ ~urlResult.done
    /\ LET call == SanitizeUrlCall(url.val)
       IN  /\ urlResult' = [done |-> TRUE, val |-> call.result]
           /\ urlWarned' = call.warnings
    /\ UNCHANGED <<url, docVars, appVars>>

NextUrl == SanitizeUrl

SpecUrl == InitUrl /\ [][NextUrl]_vars

(***************************************************************************)
(* The markdown texts handed to parse and highlight                        *)
(***************************************************************************)
MaxFrags == 3
MaxLinks == 2
MaxParseCalls == 2
NumIds == 3

\* texts made of up to MaxFrags pieces
Frags == { <<"a">>, <<" ">>, <<"\n">>, <<"*">>, <<"_">>, <<"BT">>, <<"#">> }

FreeTexts == { Flatten(f) : f \in UNION { [1..n -> Frags] : n \in 1..MaxFrags } }

\* one HTML special character m in the places where markdown puts text
MetaTexts(m) ==
    { <<m>>, <<"a", m, "b">>, <<m, " ", "5">>, <<"#", " ", m>>, <<"-", " ", m>>,
      <<"*", "*", m, "*", "*">>, <<"BT", m, "BT">>,
      <<"BT", "BT", "BT", "\n", m, "\n", "BT", "BT", "BT">>,
      <<"[", m, "]", "(", "x", m, ")">>, <<"!", "[", m, "]", "(", m, "x", ")">> }

\* a fenced block: pre, a fence line with lang, the content, a fence line
FenceContents ==
    { <<"a">>, <<" ", "a", " ">>, <<"#", " ", "h">>, <<"*", "*", "b", "*", "*">>,
      <<"_", "x", "_">>, <<"a", "\n", "b">>, <<"<", "b", ">">>, <<"$", "&">>,
      <<"$", "$">>, <<"a", "BT", "b">> }

FenceGens ==
    { [kind |-> "fence", pre |-> pr, lang |-> l, content |-> c] :
        pr \in { <<>>, <<"x", "\n", "\n">> }, l \in { <<>>, <<"j", "s">> },
        c \in FenceContents }

FenceText(g) == g.pre \o Fence \o g.lang \o <<"\n">> \o g.content \o <<"\n">> \o Fence

\* links and images: up to MaxLinks of them, a space between two
LinkTargets ==
    { <<"j", "a", "v", "a", "s", "c", "r", "i", "p", "t", ":", "a">>,
      <<"J", "a", "V", "a", "S", "c", "R", "i", "P", "t", ":", "a">>,
      <<"d", "a", "t", "a", "%", "3", "A", "x">>,
      <<"%">>,
      <<"h", "t", "t", "p", ":", "/", "/", "x">>,
      <<".", "/", "t", "\"", "y">> }

LinkItems == { [image |-> im, label |-> <<"t">>, target |-> t] :
                  im \in BOOLEAN, t \in LinkTargets }

LinkItemText(it) ==
    (IF it.image THEN <<"!">> ELSE <<>>) \o <<"[">> \o it.label \o <<"]", "(">>
        \o it.target \o <<")">>

LinkGens ==
    { [kind |-> "links", items |-> its] :
        its \in UNION { [1..n -> LinkItems] : n \in 1..MaxLinks } }

LinksText(g) == Join([k \in 1..Len(g.items) |-> LinkItemText(g.items[k])], <<" ">>)

\* texts of the repository's test documents
ThreeBlocks ==
    <<"BT", "BT", "BT", "\n", "a", "\n", "BT", "BT", "BT", "\n", "\n",
      "BT", "BT", "BT", "\n", "b", "\n", "BT", "BT", "BT", "\n", "\n",
      "BT", "BT", "BT", "\n", "c", "\n", "BT", "BT", "BT">>

NamedTexts ==
    { ThreeBlocks,
      <<"*", "*", "o", "n", "e", "*", "*", " ", "*", "t", "w", "o", "*">>,
      <<"*", "*", "*", "x", "*", "*", "*">>,
      <<"_", "_", "b", "_", "_", " ", "_", "i", "_">>,
      <<"#", " ", " ", "T">>, <<"-", "\t", "a">>, <<">", " ", "q">>,
      <<"#", " ", "T", "\n", "\n", "-", " ", "a", "\n", "-", " ", "b", "\n", "\n", "-", "-", "-">> }

DocInputs ==
    { [gen |-> [kind |-> "free"], val |-> JsString(User(t))] : t \in FreeTexts }
    \cup UNION { { [gen |-> [kind |-> "meta", char |-> m], val |-> JsString(User(t))] :
                      t \in MetaTexts(m) } : m \in HtmlSpecials }
    \cup { [gen |-> g, val |-> JsString(User(FenceText(g)))] : g \in FenceGens }
    \cup { [gen |-> g, val |-> JsString(User(LinksText(g)))] : g \in LinkGens }
    \cup { [gen |-> [kind |-> "named"], val |-> JsString(User(t))] : t \in NamedTexts }
    \cup { [gen |-> [kind |-> "named"], val |-> v] : v \in {JsNull, JsString(<<>>)} }

\* the encoded identifiers that generatePlaceholder can draw: runs of base64 characters
EncodedId(k) == <<"+", Ascii[65 + k], "/">>

\* the identifiers drawn by n calls of generatePlaceholder: no two the same
IdChoices(n) ==
    { [k \in 1..n |-> EncodedId(f[k])] :
        f \in { g \in [1..n -> 1..NumIds] : \A a, b \in 1..n : a # b => g[a] # g[b] } }

(***************************************************************************)
(* Specification of the parser and the highlighter: calls of parse and of  *)
(* highlight on one text                                                   *)
(***************************************************************************)
UrlIdle ==
    /\ url = [gen |-> [kind |-> "none"], val |-> JsNull]
    /\ urlResult = NotCalled
    /\ urlWarned = <<>>

Init ==
    /\ text \in DocInputs
    /\ preview = NotCalled
    /\ prevPreview = NotCalled
    /\ overlay = NotCalled
    /\ parseCalls = 0
    /\ UrlIdle
    /\ AppIdle

\* MarkdownParser.parse(text)
ParseCall ==
    /\ parseCalls < MaxParseCalls
    /\ \E encs \in IdChoices(PlaceholderCalls(text.val)) :
          preview' = [done |-> TRUE, val |-> Parse(text.val, encs)]
    /\ prevPreview' = preview
    /\ parseCalls' = parseCalls + 1
    /\ UNCHANGED <<text, overlay, urlVars, appVars>>

\* SyntaxHighlighter.highlight(text)
HighlightCall ==
    /\ ~overlay.done
    /\ overlay' = [done |-> TRUE, val |-> Highlight(text.val)]
    /\ UNCHANGED <<text, preview, prevPreview, parseCalls, urlVars, appVars>>

Next == ParseCall \/ HighlightCall

Spec == Init /\ [][Next]_vars

(***************************************************************************)
(* Specification of the parser and the highlighter on texts made of lines: *)
(* block quotes, lists, headers, HTML blocks and operators, emphasis       *)
(***************************************************************************)
MaxLines == 3

\* the lines of a text, joined by line feeds
LinesText(ls) == Join(ls, <<"\n">>)

QuoteLines == { <<">", " ", "q">>, <<">", " ", "r">>, <<"x">>, <<>> }

QuoteGens ==
    { [kind |-> "quote", lines |-> ls] :
        ls \in UNION { [1..n -> QuoteLines] : n \in 1..MaxLines } }

ListLineChoices ==
    { <<"-", " ", "a">>, <<"*", " ", "b">>, <<"1", ".", " ", "c">>, <<"2", ".", " ", "d">>,
      <<"x">>, <<>> }

ListGens ==
    { [kind |-> "list", lines |-> ls] :
        ls \in UNION { [1..n -> ListLineChoices] : n \in 1..MaxLines } }

\* lines that start with a run of #: the run, white space or none, text or none
MaxHeaderLines == 2
MaxLevel == 6

HeaderLineChoices ==
    { [hashes |-> n, sep |-> sp, content |-> c] :
        n \in 1..MaxLevel, sp \in { <<>>, <<" ">>, <<"\t">> }, c \in { <<>>, <<"T", " ">> } }

HeaderLineText(l) == Run("#", l.hashes) \o l.sep \o l.content

HeaderGens ==
    { [kind |-> "header", items |-> ls,
       lines |-> [k \in 1..Len(ls) |-> HeaderLineText(ls[k])]] :
        ls \in UNION { [1..n -> HeaderLineChoices] : n \in 1..MaxHeaderLines } }

\* texts of one-line blocks, a blank line between two: HTML markup, text with < used
\* as an operator, plain text
MaxBlocks == 2

HtmlBlocks ==
    { <<"<", "d", "i", "v", ">", "x", "<", "/", "d", "i", "v", ">">>,
      <<"<", "b", "l", "o", "c", "k", "q", "u", "o", "t", "e", ">", "q",
        "<", "/", "b", "l", "o", "c", "k", "q", "u", "o", "t", "e", ">">> }

OperatorBlocks ==
    { <<"a", " ", "<", " ", "5", " ", "a", "n", "d", " ", "b", " ", ">", " ", "2">>,
      <<"<", " ", "5">>, <<"<", "3">>, <<"<", "=">>, <<"<", "-">>,
      <<"I", " ", "<", "3", " ", "m", "d", "!">> }

BlockGens ==
    { [kind |-> "blocks", blocks |-> bs] :
        bs \in UNION { [1..n -> HtmlBlocks \cup OperatorBlocks \cup { <<"x">> }] :
                          n \in 1..MaxBlocks } }

BlocksText(bs) == Join(bs, <<"\n", "\n">>)

MarkupInputs ==
    { [gen |-> g, val |-> JsString(User(LinesText(g.lines)))] : g \in QuoteGens \cup ListGens }

BlockInputs ==
    { [gen |-> g, val |-> JsString(User(BlocksText(g.blocks)))] : g \in BlockGens }

HeaderInputs ==
    { [gen |-> g, val |-> JsString(User(LinesText(g.lines)))] : g \in HeaderGens }

InitMarkup ==
    /\ text \in MarkupInputs
    /\ preview = NotCalled
    /\ prevPreview = NotCalled
    /\ overlay = NotCalled
    /\ parseCalls = 0
    /\ UrlIdle
    /\ AppIdle

SpecMarkup == InitMarkup /\ [][Next]_vars

InitBlocks ==
    /\ text \in BlockInputs
    /\ preview = NotCalled
    /\ prevPreview = NotCalled
    /\ overlay = NotCalled
    /\ parseCalls = 0
    /\ UrlIdle
    /\ AppIdle

SpecBlocks == InitBlocks /\ [][Next]_vars

InitHeaders ==
    /\ text \in HeaderInputs
    /\ preview = NotCalled
    /\ prevPreview = NotCalled
    /\ overlay = NotCalled
    /\ parseCalls = 0
    /\ UrlIdle
    /\ AppIdle

SpecHeaders == InitHeaders /\ [][Next]_vars

\* texts of emphasis: items D..D content D..D with one to three delimiters, a space
\* between two; and texts whose opening ** or __ has no closing pair
MaxItems == 2

EmphasisItems ==
    { [char |-> c, count |-> n, content |-> <<"x">>] : c \in {"*", "_"}, n \in 1..3 }
    \cup { [char |-> "*", count |-> n, content |-> <<"a", "_", "b">>] : n \in 1..3 }

EmphasisItemText(it) == Run(it.char, it.count) \o it.content \o Run(it.char, it.count)

EmphasisGens ==
    { [kind |-> "emphasis", items |-> its] :
        its \in UNION { [1..n -> EmphasisItems] : n \in 1..MaxItems } }

EmphasisText(its) == Join([k \in 1..Len(its) |-> EmphasisItemText(its[k])], <<" ">>)

UnbalancedTexts ==
    { <<"*", "*", "i", "n", "c", "o", "m", "p", "l", "e", "t", "e", " ",
        "b", "o", "l", "d", "*">>,
      <<"*", "*", "x", "*">>, <<"*", "*", "x">>,
      <<"_", "_", "x", "_">>, <<"_", "_", "x">> }

UnbalancedGens == { [kind |-> "unbalanced", line |-> t] : t \in UnbalancedTexts }

EmphasisInputs ==
    { [gen |-> g, val |-> JsString(User(EmphasisText(g.items)))] : g \in EmphasisGens }
    \cup { [gen |-> g, val |-> JsString(User(g.line))] : g \in UnbalancedGens }

InitEmphasis ==
    /\ text \in EmphasisInputs
    /\ preview = NotCalled
    /\ prevPreview = NotCalled
    /\ overlay = NotCalled
    /\ parseCalls = 0
    /\ UrlIdle
    /\ AppIdle

SpecEmphasis == InitEmphasis /\ [][Next]_vars

\* texts that hold a literal that looks like a placeholder, alone or with words around
\* it, with or without a fenced block after it
LiteralTexts ==
    { <<"_", "_", "C", "O", "D", "E", "_", "B", "L", "O", "C", "K", "_", "0", "_", "_">>,
      <<"_", "_", "C", "O", "D", "E", "_", "B", "L", "O", "C", "K", "_", "1", "_", "_">> }

LiteralGens ==
    { [kind |-> "literal", literal |-> l, pre |-> pr, post |-> po, fenced |-> FALSE,
       fence |-> [kind |-> "none"]] :
        l \in LiteralTexts, pr \in { <<>>, <<"u", "s", "e", "s", " ">> },
        po \in { <<>>, <<" ", "h", "e", "r", "e">> } }
    \cup
    { [kind |-> "literal", literal |-> l, pre |-> pr, post |-> po, fenced |-> TRUE,
       fence |-> f] :
        l \in LiteralTexts, pr \in { <<>>, <<"u", "s", "e", "s", " ">> },
        po \in { <<>>, <<" ", "h", "e", "r", "e">> },
        f \in { g \in FenceGens : g.pre = <<>> } }

LiteralText(g) ==
    g.pre \o g.literal \o g.post
        \o (IF g.fenced THEN <<"\n", "\n">> \o FenceText(g.fence) ELSE <<>>)

LiteralInputs ==
    { [gen |-> g, val |-> JsString(User(LiteralText(g)))] : g \in LiteralGens }

InitLiteral ==
    /\ text \in LiteralInputs
    /\ preview = NotCalled
    /\ prevPreview = NotCalled
    /\ overlay = NotCalled
    /\ parseCalls = 0
    /\ UrlIdle
    /\ AppIdle

SpecLiteral == InitLiteral /\ [][Next]_vars

\* links and images whose URL holds emphasis or strikethrough markers
AttrTargets ==
    { <<"h", "t", "t", "p", ":", "/", "/", "x", "/", "a">>,
      <<"h", "t", "t", "p", ":", "/", "/", "x", "/", "a", "_", "b", "_", "c">>,
      <<"h", "t", "t", "p", ":", "/", "/", "x", "/", "*", "a", "*">>,
      <<".", "/", "a", "~", "~", "b", "~", "~", "c">>,
      <<"x", "_", "y">> }

AttrItems == { [image |-> im, label |-> <<"t">>, target |-> t] :
                  im \in BOOLEAN, t \in AttrTargets }

AttrGens ==
    { [kind |-> "attrs", items |-> its] :
        its \in UNION { [1..n -> AttrItems] : n \in 1..MaxLinks } }

AttrInputs == { [gen |-> g, val |-> JsString(User(LinksText(g)))] : g \in AttrGens }

InitAttrs ==
    /\ text \in AttrInputs
    /\ preview = NotCalled
    /\ prevPreview = NotCalled
    /\ overlay = NotCalled
    /\ parseCalls = 0
    /\ UrlIdle
    /\ AppIdle

SpecAttrs == InitAttrs /\ [][Next]_vars

(***************************************************************************)
(* Specification of the three core functions together: parse and highlight *)
(* on one text, sanitizeUrl on one URL, in any order                       *)
(***************************************************************************)
\* the named texts without code blocks, null and the empty string
CoreTexts == { d \in DocInputs : d.gen.kind = "named" /\ PlaceholderCalls(d.val) = 0 }

CoreUrls == { u \in UrlInputs : u.gen.kind = "other" }

InitCore ==
    /\ text \in CoreTexts
    /\ preview = NotCalled
    /\ prevPreview = NotCalled
    /\ overlay = NotCalled
    /\ parseCalls = 0
    /\ url \in CoreUrls
    /\ urlResult = NotCalled
    /\ urlWarned = <<>>
    /\ AppIdle

NextCore == ParseCall \/ HighlightCall \/ SanitizeUrl

SpecCore == InitCore /\ [][NextCore]_vars

(***************************************************************************)
(* Specification of parseLists: one run over the lines of a text, one      *)
(* action per turn of its forEach                                          *)
(***************************************************************************)
MaxListLines == 3

ListInputLines == ListLineChoices \cup { <<"-">>, <<"1", ".">> }

ListInputs ==
    UNION { [1..n -> { User(l) : l \in ListInputLines }] : n \in 1..MaxListLines }

InitLists ==
    /\ \E ls \in ListInputs : lists = [ListsIdle EXCEPT !.lines = ls]
    /\ EditIdle
    /\ scroll = ScrollIdle
    /\ modal = ModalIdle
    /\ UrlIdle
    /\ DocIdle

\* lines.forEach(line => ...): the turn for the next line
ListsLine ==
    /\ ~lists.done
    /\ lists.k < Len(lists.lines)
    /\ LET st == ListLines(<< lists.lines[lists.k + 1] >>, 1,
                           [result |-> lists.result, inUl |-> lists.inUl,
                            inOl |-> lists.inOl])
       IN  lists' = [lists EXCEPT !.k = lists.k + 1, !.result = st.result,
                                  !.inUl = st.inUl, !.inOl = st.inOl]
    /\ UNCHANGED <<urlVars, docVars, editVars, scroll, modal>>

\* after the forEach: the open list is closed, the pieces are joined and returned
ListsReturn ==
    /\ ~lists.done
    /\ lists.k = Len(lists.lines)
    /\ LET result == lists.result
                       \o (IF lists.inUl THEN << CloseTag(<<"u", "l">>) >> ELSE <<>>)
                       \o (IF lists.inOl THEN << CloseTag(<<"o", "l">>) >> ELSE <<>>)
       IN  lists' = [lists EXCEPT !.result = result, !.done = TRUE,
                                  !.html = Join(result, NewLine)]
    /\ UNCHANGED <<urlVars, docVars, editVars, scroll, modal>>

NextLists == ListsLine \/ ListsReturn

SpecLists == InitLists /\ [][NextLists]_vars

(***************************************************************************)
(* Specification of the debounced input handler: typing in the editor, the *)
(* passing of time, the timers firing                                      *)
(***************************************************************************)
MaxEditorLen == 2

TypedChars == { "a" }

\* the user types the character c: the selection is replaced, the input event is
\* handled by debouncedUpdate
TypeChar ==
    /\ Len(editor.value) - (editor.selectionEnd - editor.selectionStart) < MaxEditorLen
    /\ \E c \in TypedChars :
          editor' = WithValue(editor, editor.selectionStart, User(<<c>>),
                              editor.selectionEnd, editor.selectionStart + 1)
    /\ Debounced
    /\ UNCHANGED <<panes, save, urlVars, docVars, lists, scroll, modal>>

\* the user presses Backspace: the selection, or the character before the cursor, is
\* removed, the input event is handled by debouncedUpdate
Backspace ==
    /\ editor.selectionEnd > 0
    /\ LET from == IF editor.selectionStart = editor.selectionEnd
                     THEN editor.selectionStart - 1 ELSE editor.selectionStart
       IN  editor' = WithValue(editor, from, <<>>, editor.selectionEnd, from)
    /\ Debounced
    /\ UNCHANGED <<panes, save, urlVars, docVars, lists, scroll, modal>>

\* the timer of the debounced handler fires: () => func.apply(this, args), that is
\* Editor.updatePreview()
PreviewTimerFires ==
    /\ \E t \in timers :
          /\ t.fn = "preview"
          /\ t.left <= 0
          /\ UpdatePreview(editor, timers \ {t},
                           [debounce EXCEPT !.timeoutId = AfterFired(debounce.timeoutId, t)],
                           save)
    /\ UNCHANGED <<editor, urlVars, docVars, lists, scroll, modal>>

\* the save timer fires: Editor.saveToLocalStorage()
SaveTimerFires ==
    /\ \E t \in timers :
          /\ t.fn = "save"
          /\ t.left <= 0
          /\ timers' = timers \ {t}
          /\ save' = [saveTimeout |-> AfterFired(save.saveTimeout, t), status |-> "Saved",
                      stored |-> JsString(editor.value)]
    /\ UNCHANGED <<editor, panes, debounce, urlVars, docVars, lists, scroll, modal>>

\* TickMs milliseconds pass; no timer is overdue
Tick ==
    /\ \A t \in timers : t.left > 0
    /\ timers' = { [t EXCEPT !.left = t.left - TickMs] : t \in timers }
    /\ debounce' = [debounce EXCEPT !.timeoutId = AfterMs(debounce.timeoutId, TickMs),
                                    !.sinceInput = Min(debounce.sinceInput + TickMs, QuietMs)]
    /\ save' = [save EXCEPT !.saveTimeout = AfterMs(save.saveTimeout, TickMs)]
    /\ UNCHANGED <<editor, panes, urlVars, docVars, lists, scroll, modal>>

InitDebounce ==
    /\ AppIdle
    /\ UrlIdle
    /\ DocIdle

NextDebounce == TypeChar \/ Backspace \/ PreviewTimerFires \/ SaveTimerFires \/ Tick

SpecDebounce == InitDebounce /\ [][NextDebounce]_vars

(***************************************************************************)
(* Specification of the throttled scroll handler: the editor is scrolled,  *)
(* the browser renders frames                                              *)
(***************************************************************************)
MaxScroll == 3

\* the editor is scrolled to another position: the scroll event is handled by
\* throttledScroll
ScrollEvent ==
    /\ \E top \in 0..MaxScroll, left \in 0..MaxScroll :
          /\ <<top, left>> # <<scroll.editor.scrollTop, scroll.editor.scrollLeft>>
          /\ scroll' = Throttled([scroll EXCEPT !.editor = [scrollTop |-> top,
                                                            scrollLeft |-> left]])
    /\ UNCHANGED <<urlVars, docVars, lists, editVars, modal>>

\* the browser renders a frame: the callbacks requested are run
AnimationFrame ==
    /\ scroll.callbacks > 0
    /\ scroll' = [FrameCallbacks(scroll, scroll.callbacks) EXCEPT
                     !.callbacks = 0, !.ranInFrame = scroll.callbacks]
    /\ UNCHANGED <<urlVars, docVars, lists, editVars, modal>>

InitScroll ==
    /\ AppIdle
    /\ UrlIdle
    /\ DocIdle

NextScroll == ScrollEvent \/ AnimationFrame

SpecScroll == InitScroll /\ [][NextScroll]_vars

(***************************************************************************)
(* Specification of the link and image flows: the user starts a flow with  *)
(* the toolbar or the keyboard, edits the input of the dialog and closes   *)
(* the dialog in one of its five ways                                      *)
(***************************************************************************)
MaxPrompts == 2

\* values the user leaves in the input of the dialog
ModalValues ==
    { <<>>, Plain(FlowDefault),
      <<"h", "t", "t", "p", "s", ":", "/", "/", "x", ".", "i", "o">>,
      <<"j", "a", "v", "a", "s", "c", "r", "i", "p", "t", ":", "x">>,
      <<" ", ".", "/", "a", " ">> }

\* ToolbarActions.link(): the link button, or Ctrl+K
LinkAction ==
    /\ Resuming(modal) = {}
    /\ Len(modal.promises) < MaxPrompts
    /\ modal' = Prompt(modal, "link", FlowDefault)
    /\ UNCHANGED <<urlVars, docVars, lists, editVars, scroll>>

\* ToolbarActions.image(): the image button, or Ctrl+Shift+I
ImageAction ==
    /\ Resuming(modal) = {}
    /\ Len(modal.promises) < MaxPrompts
    /\ modal' = Prompt(modal, "image", FlowDefault)
    /\ UNCHANGED <<urlVars, docVars, lists, editVars, scroll>>

\* the user edits the input of the dialog
ModalInput ==
    /\ Resuming(modal) = {}
    /\ modal.display = "flex"
    /\ \E v \in ModalValues :
          /\ User(v) # modal.input
          /\ modal' = [modal EXCEPT !.input = User(v), !.last = [kind |-> "input",
                                                                value |-> JsNull]]
    /\ UNCHANGED <<urlVars, docVars, lists, editVars, scroll>>

\* the form is submitted: close(this.input.value)
ModalSubmit ==
    /\ Resuming(modal) = {}
    /\ modal.display = "flex"
    /\ modal' = Close(modal, "submit", JsString(modal.input))
    /\ UNCHANGED <<urlVars, docVars, lists, editVars, scroll>>

\* the Cancel button, the close button, a click on the overlay outside the dialog, the
\* Escape key while the overlay is displayed: close(null)
ModalCancel ==
    /\ Resuming(modal) = {}
    /\ modal.display = "flex"
    /\ modal' = Close(modal, "cancel", JsNull)
    /\ UNCHANGED <<urlVars, docVars, lists, editVars, scroll>>

ModalCloseButton ==
    /\ Resuming(modal) = {}
    /\ modal.display = "flex"
    /\ modal' = Close(modal, "close", JsNull)
    /\ UNCHANGED <<urlVars, docVars, lists, editVars, scroll>>

ModalOverlayClick ==
    /\ Resuming(modal) = {}
    /\ modal.display = "flex"
    /\ modal' = Close(modal, "overlay", JsNull)
    /\ UNCHANGED <<urlVars, docVars, lists, editVars, scroll>>

ModalEscape ==
    /\ Resuming(modal) = {}
    /\ modal.display = "flex"
    /\ modal' = Close(modal, "escape", JsNull)
    /\ UNCHANGED <<urlVars, docVars, lists, editVars, scroll>>

\* link() or image() resumes after its await, with the value its promise was resolved
\* to
FlowResumes ==
    /\ \E i \in Resuming(modal) :
          LET flow == modal.promises[i].flow
              value == modal.promises[i].value
              outcome == FlowOutcome(value)
              resumed == [modal EXCEPT !.promises[i].resumed = TRUE]
          IN  /\ modal' = IF outcome = "alert"
                            THEN [resumed EXCEPT !.alerts = Append(@, flow)]
                            ELSE resumed
              /\ IF outcome = "insert"
                   THEN /\ editor' = FlowInsert(editor, flow, SanitizeUrlCall(value).result)
                        /\ UpdatePreview(editor', timers, debounce, save)
                   ELSE UNCHANGED editVars
    /\ UNCHANGED <<urlVars, docVars, lists, scroll>>

\* the user selects the whole text of the editor
SelectAll ==
    /\ Resuming(modal) = {}
    /\ modal.display = "none"
    /\ editor.selectionStart # 0 \/ editor.selectionEnd # Len(editor.value)
    /\ editor' = [editor EXCEPT !.selectionStart = 0, !.selectionEnd = Len(editor.value)]
    /\ UNCHANGED <<urlVars, docVars, lists, panes, timers, debounce, save, scroll, modal>>

InitModal ==
    /\ AppIdle
    /\ UrlIdle
    /\ DocIdle

NextModal ==
    \/ LinkAction
    \/ ImageAction
    \/ ModalInput
    \/ ModalSubmit
    \/ ModalCancel
    \/ ModalCloseButton
    \/ ModalOverlayClick
    \/ ModalEscape
    \/ FlowResumes
    \/ SelectAll

SpecModal == InitModal /\ [][NextModal]_vars

(***************************************************************************)
(* Specification of the editor: every way the text of the editor changes   *)
(* (typing, the toolbar, the Tab key, a file read, clearing), with time    *)
(* and the timers                                                          *)
(***************************************************************************)
\* the buttons of the toolbar that change the text at once
ToolbarButtons == { "bold", "italic", "h1", "h2", "ul", "quote", "clear" }

\* ToolbarActions[action]() up to the call of updatePreview: the editor it leaves
ToolbarEdit(action, ed) ==
    CASE action = "bold" ->
           InsertText(ed, Gen(<<"*", "*">>), Gen(<<"*", "*">>),
                      Gen(<<"b", "o", "l", "d", " ", "t", "e", "x", "t">>))
      [] action = "italic" ->
           InsertText(ed, Gen(<<"*">>), Gen(<<"*">>),
                      Gen(<<"i", "t", "a", "l", "i", "c", " ", "t", "e", "x", "t">>))
      [] action = "h1" -> InsertLinePrefix(ed, Gen(<<"#", " ">>))
      [] action = "h2" -> InsertLinePrefix(ed, Gen(<<"#", "#", " ">>))
      [] action = "ul" -> InsertLinePrefix(ed, Gen(<<"-", " ">>))
      [] action = "quote" -> InsertLinePrefix(ed, Gen(<<">", " ">>))
      [] action = "clear" -> [value |-> <<>>, selectionStart |-> 0, selectionEnd |-> 0]

\* contents of the files read
FileTexts == { <<"#", " ", "a">>, <<"a", "\n", "-", " ", "b">>, <<" ">> }

\* a click on a button of the toolbar: ToolbarActions[action]().  clearEditor returns at
\* once when the text is blank, and changes nothing when the question is not confirmed;
\* confirmed, it empties the editor, calls updatePreview and removes the stored text
ToolbarClick ==
    /\ \E action \in ToolbarButtons :
          /\ IF action = "clear" THEN Trim(editor.value) # <<>>
             ELSE Len(editor.value) < MaxEditorLen
          /\ editor' = ToolbarEdit(action, editor)
          /\ UpdatePreview(editor', timers, debounce,
                           IF action = "clear" THEN [save EXCEPT !.stored = JsNull]
                           ELSE save)
    /\ UNCHANGED <<urlVars, docVars, lists, scroll, modal>>

\* the Tab key in the editor: the keydown handler, the default action prevented
TabKey ==
    /\ Len(editor.value) < MaxEditorLen
    /\ editor' = TabKeydown(editor)
    /\ UNCHANGED <<panes, timers, debounce, save, urlVars, docVars, lists, scroll, modal>>

\* reader.onload of FileOperations.handleFileSelect; the cursor is at the end of the
\* value assigned
FileLoad ==
    /\ Len(editor.value) < MaxEditorLen
    /\ \E content \in FileTexts :
          editor' = [value |-> User(content), selectionStart |-> Len(content),
                     selectionEnd |-> Len(content)]
    /\ UpdatePreview(editor', timers, debounce, save)
    /\ UNCHANGED <<urlVars, docVars, lists, scroll, modal>>

InitEditor ==
    /\ AppIdle
    /\ UrlIdle
    /\ DocIdle

NextEditor ==
    \/ TypeChar
    \/ ToolbarClick
    \/ TabKey
    \/ FileLoad
    \/ PreviewTimerFires
    \/ SaveTimerFires
    \/ Tick

SpecEditor == InitEditor /\ [][NextEditor]_vars

(***************************************************************************)
(* Properties of parse and highlight                                       *)
(***************************************************************************)
Contains(s, cs) == IndexOf(s, cs, 1) # 0

CountOf(s, cs) == Cardinality({i \in 1..Len(s) : StartsWithAt(s, i, cs)})

HasOrigin(s, o) == \E i \in 1..Len(s) : s[i][2] = o

LinksParsed == preview.done /\ text.gen.kind = "links"

Accepted(item) == sanitizeUrl(User(item.target)) # <<>>

\* what stands for a link or image whose URL was refused
FallbackOf(item) ==
    <<"<", "s", "p", "a", "n", ">", "[">>
        \o (IF item.image THEN <<"I", "m", "a", "g", "e", ":", " ">> ELSE <<>>)
        \o item.label \o <<"]", "<", "/", "s", "p", "a", "n", ">">>

\* the element of a link or image whose URL was accepted
ElementOf(item) ==
    LET u == Plain(sanitizeUrl(ParserEscapeHtml(User(item.target))))
    IN  IF item.image
          THEN <<"<", "i", "m", "g", " ", "s", "r", "c", "=", "\"">> \o u
                 \o <<"\"", " ", "a", "l", "t", "=", "\"">> \o item.label \o <<"\"", ">">>
          ELSE <<"<", "a", " ", "h", "r", "e", "f", "=", "\"">> \o u \o <<"\"", ">">>
                 \o item.label \o <<"<", "/", "a", ">">>

C5_NoPlaceholderLeft ==
    /\ preview.done => ~HasOrigin(preview.val, "p")
    /\ overlay.done => ~HasOrigin(overlay.val, "p")

\* the <pre><code> element of a block with content t
CodeElementOf(t) ==
    <<"<", "p", "r", "e", ">", "<", "c", "o", "d", "e", ">">>
        \o Plain(ParserEscapeHtml(Trim(User(t))))
        \o <<"<", "/", "c", "o", "d", "e", ">", "<", "/", "p", "r", "e", ">">>

\* C6: a fenced block with content T is rendered as <pre><code>, T trimmed and
\* escaped, </code></pre>.
C6_FenceRoundTrip ==
    (preview.done /\ text.gen.kind = "fence")
        => Contains(preview.val, CodeElementOf(text.gen.content))

\* C7: the text with three fenced blocks a, b, c is rendered, by every call, as
\* three <pre><code> elements holding a, b and c in this order.
C7_ThreeBlocksRendered ==
    (preview.done /\ text.val = JsString(User(ThreeBlocks)))
        => Plain(preview.val)
             = CodeElementOf(<<"a">>) \o <<"\n", "\n">> \o CodeElementOf(<<"b">>)
                 \o <<"\n", "\n">> \o CodeElementOf(<<"c">>)

C9_ParseDeterministic ==
    (preview.done /\ prevPreview.done) => Plain(preview.val) = Plain(prevPreview.val)

SpanClasses ==
    {ClassBold, ClassItalic, ClassCodeBlock, ClassCode, ClassHeader, ClassLink,
     ClassList, ClassQuote}

SpanTags == {Plain(SpanOpen(c)) : c \in SpanClasses} \cup {Plain(SpanClose)}

\* s without its <span class="syntax-..."> and </span> tags
StripSpans(s) ==
    LET M(t, i) == IF \E tag \in SpanTags : StartsWithAt(t, i, tag)
                     THEN i - 1 + Len(CHOOSE tag \in SpanTags : StartsWithAt(t, i, tag))
                     ELSE 0
        R(t, i, e, k) == <<>>
    IN  ReplaceAll(s, M, R)

\* C10: what highlight returns, its span tags removed, is the escaped input.
C10_HighlightKeepsText ==
    (overlay.done /\ text.val.type = "string")
        => Plain(StripSpans(overlay.val)) = Plain(HighlighterEscapeHtml(text.val.val))

(***************************************************************************)
(* Properties of block quotes, lists, headers, paragraphs and emphasis     *)
(***************************************************************************)
Parsed(kind) == preview.done /\ text.gen.kind = kind

Quoted(line) == StartsWithAt(User(line), 1, <<">", " ">>)

\* the lines at which a maximal run of quoted lines starts
QuoteRunStarts(ls) ==
    { i \in 1..Len(ls) : Quoted(ls[i]) /\ (i = 1 \/ ~Quoted(ls[i - 1])) }

\* the last line of the run of quoted lines that starts at line i
QuoteRunEnd(ls, i) ==
    CHOOSE j \in i..Len(ls) :
        /\ \A k \in i..j : Quoted(ls[k])
        /\ j = Len(ls) \/ ~Quoted(ls[j + 1])

\* the <blockquote> element of the run of quoted lines that starts at line i
QuoteElementOf(ls, i) ==
    <<"<", "b", "l", "o", "c", "k", "q", "u", "o", "t", "e", ">">>
        \o LinesText([k \in 1..(QuoteRunEnd(ls, i) - i + 1) |->
                         SubSeq(ls[i + k - 1], 3, Len(ls[i + k - 1]))])
        \o <<"<", "/", "b", "l", "o", "c", "k", "q", "u", "o", "t", "e", ">">>

\* C11: every maximal run of lines that start with "> " is rendered as one
\* <blockquote> element holding the lines, prefix stripped, joined by line feeds.
C11_QuoteRunsGrouped ==
    Parsed("quote") =>
        LET ls == text.gen.lines
        IN  /\ CountOf(preview.val, <<"<", "b", "l", "o", "c", "k", "q", "u", "o", "t", "e", ">">>)
                 = Cardinality(QuoteRunStarts(ls))
            /\ \A i \in QuoteRunStarts(ls) : Contains(preview.val, QuoteElementOf(ls, i))

\* "ul" for a line with an unordered marker, "ol" for one with an ordered marker
ListKind(line) ==
    IF Len(line) >= 3 /\ line[1] \in {"*", "-"} /\ line[2] = " " THEN "ul"
    ELSE IF Len(line) >= 4 /\ line[1] \in Digits /\ line[2] = "." /\ line[3] = " " THEN "ol"
    ELSE "none"

\* the lines at which a maximal run of lines of the list kind starts
ListRunStarts(ls, kind) ==
    { i \in 1..Len(ls) : ListKind(ls[i]) = kind /\ (i = 1 \/ ListKind(ls[i - 1]) # kind) }

ListRunEnd(ls, i) ==
    CHOOSE j \in i..Len(ls) :
        /\ \A k \in i..j : ListKind(ls[k]) = ListKind(ls[i])
        /\ j = Len(ls) \/ ListKind(ls[j + 1]) # ListKind(ls[i])

ItemOf(line) ==
    <<"<", "l", "i", ">">>
        \o SubSeq(line, IF ListKind(line) = "ul" THEN 3 ELSE 4, Len(line))
        \o <<"<", "/", "l", "i", ">">>

\* the <ul> or <ol> element of the run of list lines that starts at line i
ListElementOf(ls, i) ==
    LET name == IF ListKind(ls[i]) = "ul" THEN <<"u", "l">> ELSE <<"o", "l">>
    IN  <<"<">> \o name \o <<">", "\n">>
          \o Flatten([k \in 1..(ListRunEnd(ls, i) - i + 1) |->
                         ItemOf(ls[i + k - 1]) \o <<"\n">>])
          \o <<"<", "/">> \o name \o <<">">>

\* C12: every maximal run of lines with an unordered marker is one <ul> with one <li>
\* per line, every maximal run with an ordered marker one <ol>; the open list is
\* closed at a change of marker and at a line that is no item, and no list is inside
\* another.
C12_ListRunsGrouped ==
    Parsed("list") =>
        LET ls == text.gen.lines
            runs == ListRunStarts(ls, "ul") \cup ListRunStarts(ls, "ol")
        IN  /\ CountOf(preview.val, <<"<", "u", "l", ">">>) = Cardinality(ListRunStarts(ls, "ul"))
            /\ CountOf(preview.val, <<"<", "o", "l", ">">>) = Cardinality(ListRunStarts(ls, "ol"))
            /\ CountOf(preview.val, <<"<", "l", "i", ">">>)
                 = Cardinality({i \in 1..Len(ls) : ListKind(ls[i]) # "none"})
            /\ \A i \in runs : Contains(preview.val, ListElementOf(ls, i))

\* C12 witness: an unordered item, an ordered item and a line that is no item have
\* been parsed: a <ul> closed before the <ol> opens, the <ol> closed before the line
C12_Witness ==
    /\ Parsed("list")
    /\ text.gen.lines = << <<"-", " ", "a">>, <<"1", ".", " ", "c">>, <<"x">> >>
    /\ Contains(preview.val, <<"<", "/", "u", "l", ">", "\n", "<", "o", "l", ">">>)
    /\ Contains(preview.val, <<"<", "/", "o", "l", ">", "\n", "x">>)

\* the <hN> element with content c
HeaderElementOf(n, c) ==
    <<"<", "h", Ascii[49 + n], ">">> \o c \o <<"<", "/", "h", Ascii[49 + n], ">">>

\* C13: a line made of N = 1..6 '#', white space and text is rendered as <hN> with
\* the text trimmed; a line whose '#' run is followed at once by text is not
\* rendered as a header of any level.
C13_HeaderNeedsSpace ==
    Parsed("header") =>
        \A k \in 1..Len(text.gen.items) :
            LET l == text.gen.items[k]
            IN  /\ (l.sep # <<>> /\ l.content # <<>>)
                     => Contains(preview.val, HeaderElementOf(l.hashes, <<"T">>))
                /\ (l.sep = <<>> /\ l.content # <<>>)
                     => \A n \in 1..MaxLevel :
                            ~Contains(preview.val,
                                      HeaderElementOf(n, Run("#", l.hashes) \o <<"T">>))

\* C25: a line made of N = 1..6 '#' and nothing else is rendered as <hN></hN>, each
\* such line on its own.
C25_EmptyHeader ==
    Parsed("header") =>
        \A k \in 1..Len(text.gen.items) :
            LET l == text.gen.items[k]
            IN  (l.sep = <<>> /\ l.content = <<>>)
                    => Contains(preview.val, HeaderElementOf(l.hashes, <<>>))

\* the block b, escaped, inside <p>
ParagraphOf(b) ==
    <<"<", "p", ">">> \o Plain(ParserEscapeHtml(User(b))) \o <<"<", "/", "p", ">">>

\* C14: a block that is HTML markup is not wrapped in <p>.
C14_HtmlBlockUnwrapped ==
    Parsed("blocks") =>
        \A k \in 1..Len(text.gen.blocks) :
            text.gen.blocks[k] \in HtmlBlocks
                => /\ ~Contains(preview.val, ParagraphOf(text.gen.blocks[k]))
                   /\ ~Contains(preview.val, <<"<", "p", ">">> \o text.gen.blocks[k])

\* C15: a one-line block with < used as an operator is rendered as <p>, the block with
\* < and > written as &lt; and &gt;, </p>; it is not passed through unwrapped.
C15_OperatorBlockWrapped ==
    Parsed("blocks") =>
        /\ \A k \in 1..Len(text.gen.blocks) :
               text.gen.blocks[k] \in OperatorBlocks
                   => Contains(preview.val, ParagraphOf(text.gen.blocks[k]))
        /\ (\A k \in 1..Len(text.gen.blocks) : text.gen.blocks[k] \notin HtmlBlocks)
               => Plain(preview.val)
                    = BlocksText([k \in 1..Len(text.gen.blocks) |->
                                     ParagraphOf(text.gen.blocks[k])])

\* C15 witness: the text "<3" then "a < 5 and b > 2" has been parsed into two
\* paragraphs with entities
C15_Witness ==
    /\ Parsed("blocks")
    /\ Len(text.gen.blocks) = 2
    /\ text.gen.blocks[1] = <<"<", "3">>
    /\ text.gen.blocks[2] \in OperatorBlocks /\ Len(text.gen.blocks[2]) = 15
    /\ CountOf(preview.val, <<"<", "p", ">", "&", "l", "t", ";", "3", "<", "/", "p", ">">>) = 1
    /\ CountOf(preview.val, <<"&", "g", "t", ";">>) = 1
    /\ CountOf(preview.val, <<"<", "p", ">">>) = 2

\* the element an emphasis item is to become
Tagged(name, inner) ==
    <<"<">> \o name \o <<">">> \o inner \o <<"<", "/">> \o name \o <<">">>

EmphasisElementOf(it) ==
    CASE it.count = 3 -> Tagged(Strong, Tagged(Em, it.content))
      [] it.count = 2 -> Tagged(Strong, it.content)
      [] it.count = 1 -> Tagged(Em, it.content)

\* C16: every emphasis item becomes its own element, ***x*** the nested
\* <strong><em>x</em></strong>, and no later pass matches inside or across the
\* elements an earlier pass made.
C16_EmphasisPrecedence ==
    Parsed("emphasis") =>
        Plain(preview.val)
            = Join([k \in 1..Len(text.gen.items) |-> EmphasisElementOf(text.gen.items[k])],
                   <<" ">>)

\* C17: a text whose opening ** or __ has no closing pair is rendered as a paragraph of
\* its own characters by parse, and highlight puts no bold or italic span in it.
C17_UnbalancedStaysLiteral ==
    /\ Parsed("unbalanced") => Plain(preview.val) = Tagged(<<"p">>, text.gen.line)
    /\ (overlay.done /\ text.gen.kind = "unbalanced")
           => /\ ~Contains(overlay.val, Plain(SpanOpen(ClassBold)))
              /\ ~Contains(overlay.val, Plain(SpanOpen(ClassItalic)))

\* C21: a literal of the text that looks like a placeholder is in the output as it
\* was written, in the paragraph of its line, whether or not a fenced block follows.
C21_LiteralShown ==
    Parsed("literal") =>
        Contains(preview.val,
                 <<"<", "p", ">">> \o text.gen.pre \o text.gen.literal \o text.gen.post
                     \o <<"<", "/", "p", ">">>)

\* the pieces of result that are list tags, in order
ListOpenTags == { <<"<", "u", "l", ">">>, <<"<", "o", "l", ">">> }
ListCloseTags == { <<"<", "/", "u", "l", ">">>, <<"<", "/", "o", "l", ">">> }
ListCloseOf(open) == <<"<", "/">> \o Tail(open)
IsListTag(piece) == Plain(piece) \in ListOpenTags \cup ListCloseTags
IsListItem(piece) == StartsWith(piece, <<"<", "l", "i", ">">>)

\* the number of list tags among the first n pieces
ListTagsBefore(result, n) == Cardinality({ j \in 1..n : IsListTag(result[j]) })

\* the position of the t-th list tag
ListTagAt(result, t) ==
    CHOOSE j \in 1..Len(result) : IsListTag(result[j]) /\ ListTagsBefore(result, j) = t

\* C28: at every turn of parseLists the flags inUl and inOl are not both true; the list
\* tags pushed so far alternate between an open tag and its own end tag, the last one
\* being open exactly when a flag is true, and none is open when the text ends; every
\* <li> comes after an open tag that is not yet closed; there are as many <li> as
\* lines done that carry a list marker.
C28_ListTagsBalanced ==
    LET result == lists.result
        n == ListTagsBefore(result, Len(result))
    IN  /\ ~(lists.inUl /\ lists.inOl)
        /\ \A t \in 1..n :
              LET tag == Plain(result[ListTagAt(result, t)])
              IN  IF t % 2 = 1 THEN tag \in ListOpenTags
                  ELSE tag = ListCloseOf(Plain(result[ListTagAt(result, t - 1)]))
        /\ ~lists.done =>
              /\ (n % 2 = 1) = (lists.inUl \/ lists.inOl)
              /\ lists.inUl => Plain(result[ListTagAt(result, n)]) = <<"<", "u", "l", ">">>
              /\ lists.inOl => Plain(result[ListTagAt(result, n)]) = <<"<", "o", "l", ">">>
        /\ lists.done => n % 2 = 0
        /\ \A j \in 1..Len(result) :
              IsListItem(result[j]) => ListTagsBefore(result, j) % 2 = 1
        /\ Cardinality({ j \in 1..Len(result) : IsListItem(result[j]) })
             = Cardinality({ i \in 1..lists.k : ListKind(Plain(lists.lines[i])) # "none" })
        /\ lists.done =>
              lists.html = ParseLists(Join(lists.lines, NewLine))

\* C28 witness: the lines "1. c", "- a", "* b" have been run through: an <ol> with one
\* item, closed, then a <ul> with two items, closed when the text ends
C28_Witness ==
    /\ lists.done
    /\ Len(lists.lines) = 3
    /\ Plain(lists.html)
         = <<"<", "o", "l", ">", "\n", "<", "l", "i", ">", "c", "<", "/", "l", "i", ">", "\n",
             "<", "/", "o", "l", ">", "\n", "<", "u", "l", ">", "\n",
             "<", "l", "i", ">", "a", "<", "/", "l", "i", ">", "\n",
             "<", "l", "i", ">", "b", "<", "/", "l", "i", ">", "\n",
             "<", "/", "u", "l", ">">>

\* the five entities, complete
StatedEntity(c) ==
    CASE c = "&" -> <<"&", "a", "m", "p", ";">>
      [] c = "<" -> <<"&", "l", "t", ";">>
      [] c = ">" -> <<"&", "g", "t", ";">>
      [] c = "\"" -> <<"&", "q", "u", "o", "t", ";">>
      [] c = "'" -> <<"&", "#", "0", "3", "9", ";">>

StatedEscape(cs) ==
    Flatten([i \in 1..Len(cs) |->
                IF cs[i] \in HtmlSpecials THEN StatedEntity(cs[i]) ELSE << cs[i] >>])

\* C26: on the text that parse and highlight were given, MarkdownParser.escapeHtml and
\* SyntaxHighlighter.escapeHtml both return the text with each of & < > " ' written as
\* its complete entity, and so the same string.
C26_EscapeAgrees ==
    (preview.done /\ overlay.done /\ text.val.type = "string") =>
        /\ Plain(ParserEscapeHtml(text.val.val)) = StatedEscape(Plain(text.val.val))
        /\ Plain(HighlighterEscapeHtml(text.val.val)) = StatedEscape(Plain(text.val.val))
        /\ ParserEscapeHtml(text.val.val) = HighlighterEscapeHtml(text.val.val)

\* the attribute name="value" as it is to be written for the URL of an item
AttributeOf(it) ==
    (IF it.image THEN <<"s", "r", "c">> ELSE <<"h", "r", "e", "f">>)
        \o <<"=", "\"">> \o Plain(sanitizeUrl(User(it.target))) \o <<"\"">>

\* C27: for every link and image of the text, the output holds href or src with
\* exactly the string sanitizeUrl returned for its URL.
C27_AttributeKept ==
    Parsed("attrs") =>
        \A k \in 1..Len(text.gen.items) :
            Contains(preview.val, AttributeOf(text.gen.items[k]))

(***************************************************************************)
(* Properties of the editor                                                *)
(***************************************************************************)
PreviewTimers == { t \in timers : t.fn = "preview" }

C24_ScrollThrottled ==
    /\ scroll.callbacks <= 1
    /\ scroll.ranInFrame <= 1
    /\ scroll.rafId = (scroll.callbacks = 1)
    /\ ~scroll.rafId => scroll.highlight = scroll.editor

\* C24 witness: a frame has run the handler once and the highlight layer is where the
\* editor is, away from the start
C24_Witness ==
    /\ scroll.ranInFrame = 1
    /\ ~scroll.rafId
    /\ scroll.highlight = [scrollTop |-> 2, scrollLeft |-> 1]
    /\ scroll.editor = scroll.highlight

\* the promise whose flow resumes in this step, 0 if none does
ResumedNow ==
    IF \E i \in Resuming(modal) : modal'.promises[i].resumed
      THEN CHOOSE i \in Resuming(modal) : modal'.promises[i].resumed
      ELSE 0

\* the markdown of a flow for the URL u around the text t, as the page describes it
StatedMarkdown(flow, t, u) ==
    (IF flow = "link" THEN <<"[">> ELSE <<"!", "[">>) \o t \o <<"]", "(">> \o u \o <<")">>

\* C22: in the link and image flows the text of the editor stays as it is when the
\* dialog is closed by Cancel, the close button, Escape or a click on the overlay, when
\* an empty value is submitted, and when sanitizeUrl rejects the value submitted; in the
\* last case, and in no other, an alert is shown.  The text changes only by the markdown
\* of a URL that sanitizeUrl accepted, placed at the selection.
C22_FlowFrame ==
    [][ LET i == ResumedNow
            p == modal.promises[i]
            kind == modal.last.kind
            start == editor.selectionStart
            end == editor.selectionEnd
            selected == Plain(SubSeq(editor.value, start + 1, end))
            around == IF selected # <<>> THEN selected
                      ELSE IF p.flow = "link" THEN <<"l", "i", "n", "k", " ", "t", "e", "x", "t">>
                      ELSE <<"a", "l", "t", " ", "t", "e", "x", "t">>
            same == editor'.value = editor.value /\ panes' = panes
        IN  IF i = 0 THEN same /\ modal'.alerts = modal.alerts
            ELSE /\ kind \in {"cancel", "close", "escape", "overlay"}
                      => p.value = JsNull /\ same /\ modal'.alerts = modal.alerts
                 /\ kind = "submit" /\ p.value.val = <<>>
                      => same /\ modal'.alerts = modal.alerts
                 /\ kind = "submit" /\ p.value.val # <<>> /\ sanitizeUrl(p.value.val) = <<>>
                      => same /\ modal'.alerts = Append(modal.alerts, p.flow)
                 /\ editor'.value # editor.value
                      => /\ kind = "submit"
                         /\ sanitizeUrl(p.value.val) # <<>>
                         /\ modal'.alerts = modal.alerts
                         /\ Plain(editor'.value) =
                              Plain(SubSeq(editor.value, 1, start))
                              \o StatedMarkdown(p.flow, around,
                                                Plain(sanitizeUrl(p.value.val)))
                              \o Plain(SubSeq(editor.value, end + 1, Len(editor.value)))
                         /\ panes' = Rendered(editor'.value)
      ]_vars

\* C22 witness: an image was inserted for a relative URL, which sanitizeUrl returned
\* trimmed; then a link with a javascript: value gave an alert and left the text as it
\* was
C22_Witness ==
    /\ Len(modal.promises) = 2
    /\ modal.promises[1].flow = "image" /\ modal.promises[1].resumed
    /\ Plain(modal.promises[1].value.val) = <<" ", ".", "/", "a", " ">>
    /\ modal.promises[2].flow = "link" /\ modal.promises[2].resumed
    /\ Plain(modal.promises[2].value.val) =
         <<"j", "a", "v", "a", "s", "c", "r", "i", "p", "t", ":", "x">>
    /\ modal.last.kind = "submit"
    /\ modal.alerts = <<"link">>
    /\ Plain(editor.value) = <<"!", "[", "a", "l", "t", " ", "t", "e", "x", "t", "]",
                               "(", ".", "/", "a", ")">>
    /\ panes = Rendered(editor.value)

\* C29: every promise of ModalDialog.prompt is resolved exactly once, when the dialog is
\* next closed: while the dialog is hidden no promise is unresolved, and no promise is
\* resolved twice
C29_EveryPromiseResolvedOnce ==
    /\ \A i \in 1..Len(modal.promises) : modal.promises[i].resolved <= 1
    /\ modal.display = "none"
         => \A i \in 1..Len(modal.promises) : modal.promises[i].resolved = 1

\* C30: whenever no timer of the debounced input handler is pending, the preview holds
\* parse of the text of the editor and the overlay holds highlight of it
C30_PanesFollowText ==
    PreviewTimers = {} => panes = Rendered(editor.value)

(***************************************************************************)
(* Properties of the core functions on empty and malformed input           *)
(***************************************************************************)
\* URLs whose percent-encoding decodeURIComponent refuses
MalformedUrls ==
    { <<"%">>, <<"x", "%", "4">>, <<"%", "z", "z">>, <<"%", "8", "0">>,
      <<"%", "C", "0", "%", "8", "0">> }

Malformed(v) == v.type = "string" /\ Plain(Trim(v.val)) \in MalformedUrls

Blank(v) == v.type # "string" \/ Trim(v.val) = <<>>

\* C18: parse and highlight return "" for null and for the empty string; sanitizeUrl
\* returns "" for null, for a value that is no string, for an empty or blank string
\* and for a string with malformed percent-encoding. Each call returns a value.
C18_EmptyOnEmptyInput ==
    /\ (preview.done /\ Falsy(text.val)) => preview.val = <<>>
    /\ (overlay.done /\ Falsy(text.val)) => overlay.val = <<>>
    /\ (urlResult.done /\ (Blank(url.val) \/ Malformed(url.val))) => urlResult.val = <<>>

\* C18 witness: parse and highlight have been called on null, sanitizeUrl on "%zz",
\* and all three have returned ""
C18_Witness ==
    /\ text.val = JsNull /\ preview.done /\ overlay.done
    /\ preview.val = <<>> /\ overlay.val = <<>>
    /\ url.val.type = "string" /\ Plain(url.val.val) = <<"%", "z", "z">>
    /\ urlResult.done /\ urlResult.val = <<>>

(***************************************************************************)
(* Properties of sanitizeUrl                                               *)
(***************************************************************************)
SchemeCall == urlResult.done /\ url.gen.kind = "scheme"

\* C1: a URL that spells a denied scheme, in any letter case and with white space or
\* control characters before, after or inside the scheme name, is answered with "".
C1_DeniedSchemeRejected ==
    (SchemeCall /\ url.gen.name \in DeniedNames /\ ~url.gen.escaped /\ url.gen.sep = <<":">>)
        => urlResult.val = <<>>

C4_AllowedSchemeAccepted ==
    (/\ SchemeCall
     /\ url.gen.name \in AllowedNames
     /\ url.gen.form = "lower"
     /\ ~url.gen.escaped
     /\ url.gen.sep = <<":">>
     /\ url.gen.place.at \in {"none", "before", "end", "around"}
     /\ \A k \in 1..Len(url.gen.pad) : url.gen.pad[k] \in WhiteSpace)
        => /\ urlResult.val = User(url.gen.name \o <<":">> \o SchemeTail)
           /\ urlResult.val # <<>>

\* C4 witness: "ftps://x" with white space on both sides has been sanitized.
C4_Witness ==
    /\ SchemeCall
    /\ url.gen.name = <<"f", "t", "p", "s">>
    /\ url.gen.form = "lower"
    /\ ~url.gen.escaped
    /\ url.gen.sep = <<":">>
    /\ url.gen.place.at = "around"
    /\ url.gen.pad = <<" ">>
    /\ urlResult.val = User(<<"f", "t", "p", "s", ":", "/", "/", "x">>)

\* C19: a call that refuses a URL that is not blank logs a warning that carries the
\* trimmed URL.
C19_RejectionLogged ==
    (urlResult.done /\ ~Blank(url.val) /\ urlResult.val = <<>>)
        => \E k \in 1..Len(urlWarned) : urlWarned[k].value = Trim(url.val.val)

\* a reference without a scheme: no colon, or a "/", "?" or "#" before the first colon
NoScheme(s) ==
    LET c == FirstIn(s, 1, {":"})
        d == FirstIn(s, 1, {"/", "?", "#"})
    IN  c = 0 \/ (d # 0 /\ d < c)

\* C20, as stated: every URL written without a scheme is returned, trimmed.
C20_EveryRelativeAccepted ==
    (urlResult.done /\ ~Blank(url.val) /\ NoScheme(Trim(url.val.val)))
        => urlResult.val = Trim(url.val.val)

\* C20: the value returned is "" or the trimmed input, and a URL whose escapes decode
\* and whose decoded form has no scheme is returned, trimmed and not decoded.
C20_AcceptedAsTrimmed ==
    urlResult.done =>
        /\ urlResult.val = <<>>
             \/ (url.val.type = "string" /\ urlResult.val = Trim(url.val.val))
        /\ (/\ ~Blank(url.val)
            /\ DecodeURIComponent(Trim(url.val.val)).ok
            /\ NoScheme(DecodeURIComponent(Trim(url.val.val)).val))
               => urlResult.val = Trim(url.val.val)

\* C20 witness: "a%2Fb%3Ac", which decodes to "a/b:c", has been returned as written
C20_Witness ==
    /\ urlResult.done
    /\ urlResult.val = User(<<"a", "%", "2", "F", "b", "%", "3", "A", "c">>)
    /\ Plain(DecodeURIComponent(url.val.val).val) = <<"a", "/", "b", ":", "c">>


====
